---- MODULE Spec2Model ----
(***************************************************************************)
(* Handle-identity and asynchronous-dispatch layer of smbcpp.py.           *)
(*                                                                         *)
(* The module models the two weak registries (Context._instances and       *)
(* GenericFile._instances), the lifetime of Context / File / Directory     *)
(* wrappers under CPython reference counting (a finaliser runs in the step *)
(* that drops the last reference, on the thread that drops it), and the    *)
(* per-Context worker thread with its request queue.                       *)
(*                                                                         *)
(* The native library (libsmbclient) is an external collaborator: it hands *)
(* out context and file identifiers (addresses) and may hand out again an  *)
(* identifier it has released.                                             *)
(***************************************************************************)
EXTENDS Integers, Sequences, FiniteSets, TLC

\* ------------------------------------------------------------------ bounds

\* native context addresses the library can hand out
NumCtxIds == 2
\* native file/directory addresses the library can hand out
NumFileIds == 2
\* async requests submitted on the async Context
MaxReq == 3
\* end-of-work entries that may wait in the queue when close() adds another
MaxSentinels == 1

\* ------------------------------------------------------- program constants

\* Python None / a NULL pointer
None == 0
\* the end-of-work entry: _WorkQueueEntry(func = None, ...)
Sentinel == 0
\* the worker's local variable `entry` before its first assignment
NoEntry == Sentinel - 1

CtxIds == 1..NumCtxIds
CtxKeys == 0..NumCtxIds
FileIds == 1..NumFileIds
\* Object identities of Context wrappers / of File and Directory wrappers.  An
\* identity is that of a live object: a finalised object's identity (its
\* address) is free for the next object.  One identity per registry key is
\* what the registries can hold.
CW == 1..(NumCtxIds + 1)
HW == 1..NumFileIds
\* the Context of the asynchronous specification
AsyncCtx == 1
ReqIds == 1..MaxReq
\* request kinds: a Context-bound method that opens a handle, a Context-bound
\* method without a result object, and flush_async's lambda
BoundKinds == {"open", "op"}
ReqKinds == BoundKinds \cup {"flush"}

\* ------------------------------------------------------- string arguments

\* longest string argument
MaxLen == 2
\* code points of a str: NUL, "a", and one outside ASCII (e-acute)
Chars == {0, 97, 233}
\* byte values of a bytes / bytearray: NUL, "a", and a UTF-8 lead byte
ByteVals == {0, 97, 195}

SeqsUpTo(A, n) == UNION {[1..k -> A] : k \in 0..n}

\* argument values: a str, a bytes, or an object of another type
StrArgs == [type : {"str"}, val : SeqsUpTo(Chars, MaxLen)]
BytesArgs == [type : {"bytes"}, val : SeqsUpTo(ByteVals, MaxLen)]
OtherArg == [type |-> "other", val |-> <<>>]
Args == StrArgs \cup BytesArgs \cup {OtherArg}

\* str.encode(): UTF-8, one byte below 128, two bytes from there to 2047
RECURSIVE Utf8(_)
Utf8(cs) ==
    IF cs = <<>> THEN <<>>
    ELSE LET c == Head(cs)
         IN (IF c < 128 THEN <<c>> ELSE <<192 + (c \div 64), 128 + (c % 64)>>) \o Utf8(Tail(cs))

\* encode_str0(s): err is "none", "TypeError" or "ValueError"
encode_str0(s) ==
    IF s.type \notin {"str", "bytes"}
    THEN [err |-> "TypeError", val |-> <<>>]
    ELSE LET c_s == IF s.type = "str" THEN Utf8(s.val) ELSE s.val
         IN IF \E i \in 1..Len(c_s) : c_s[i] = 0
            THEN [err |-> "ValueError", val |-> <<>>]
            ELSE [err |-> "none", val |-> c_s \o <<0>>]

\* the path argument of the requests of the dispatch specification
GoodPath == [type |-> "str", val |-> <<97>>]
\* the path arguments of the argument-validation specification: a valid one,
\* one of the wrong type, a str and a bytes with an embedded NUL
PathChoices == {GoodPath, OtherArg, [type |-> "str", val |-> <<97, 0>>],
                [type |-> "bytes", val |-> <<0>>]}

\* File.__new__: result.read_at_once = 4096
ReadAtOnceDefault == 4096

VARIABLES
    natCtx,                 \* native: context id -> "free" | "live"
    natFile,                \* native: file id -> owning context id, 0 when free
    natCurrent,             \* native: smbc_set_context's static current context
    cw,                     \* Context wrappers
    hw,                     \* File / Directory wrappers
    Context_instances,      \* Context._instances (weak values)
    GenericFile_instances,  \* GenericFile._instances (weak values)
    userCtx,                \* Context wrappers the caller references
    userH,                  \* handle wrappers the caller references
    closeLog,               \* per handle wrapper: native close functions invoked
    freeOk,                 \* per Context wrapper: successful smbc_free_context calls
    freeAfter,              \* per Context wrapper: release calls made after a successful one
    lastLookup,             \* the registry lookup this step made, if any
    lastFinal,              \* the wrappers this step finalised, as they were at the end
    lastFree,               \* the successful smbc_free_context calls of this step
    crashed,                \* the process died in native code
    nativeThreads,          \* threads inside a native call when this step entered one
    work_queue,             \* AsyncCtx._work_queue
    wpc,                    \* worker thread position
    wEntry,                 \* worker local `entry`
    wResult,                \* worker local `result` (a handle wrapper or None)
    callbacks,              \* the event loop's queue of call_soon_threadsafe callbacks
    reqKind,                \* submitted requests, in submission order
    reqArg,                 \* the path argument each request was submitted with
    fut,                    \* result slot of each request
    resolver,               \* thread that resolved each result slot
    outcome,                \* what each request's operation did
    execLog,                \* requests in the order the worker invoked them
    doneLog,                \* requests in the order their result slots were resolved
    mpc,                    \* caller (event-loop) thread position
    ioData,                 \* native: the bytes of the file behind IoHandle
    ioPos,                  \* native: the file position of that file
    read_at_once,           \* IoHandle.read_at_once
    lastOp,                 \* the File operation this step made, and what it did
    nPhase,                 \* notifier: where its _run_notifications request is
    nStopping,              \* notifier: self.stopping
    nAsyncFor,              \* notifier: self.async_for
    nTimeout,               \* notifier: self.timeout
    nHasAction,             \* notifier: self.action != None
    nElapsed,               \* notifier: time from self.last_call to the latest clock reading
    nSinceEvent,            \* notifier: time since the last delivered event or the start
    nPosted,                \* notifier: callbacks posted to the loop, not yet run
    notifs,                 \* notifier: self.notifs
    nFut,                   \* notifier: self.done_fute
    nEnds,                  \* notifier: end-markers put into self.notifs so far
    nCons,                  \* notifier: the consumer's position
    lastCb,                 \* notifier: the c_notifier invocation of this step
    dListing,               \* native: the names of the directory's entries, in order
    dCursor,                \* native: the directory's cursor, in entries
    decode_bytes,           \* Context.decode_bytes
    dPhase,                 \* get_all_dents generator: "none", "running", "done", "error"
    dBuf,                   \* get_all_dents local `buf`, the entries of the last fill
    dOffset,                \* get_all_dents local `offset`, in entries
    dOut,                   \* the dirents the generator has yielded
    auth_entries,           \* SimpleAuthEntry._entries
    function_auth_data,     \* the Context's auth callback: "None", "user" or "do_auth"
    lastGet,                \* the auth-table lookup this step made, if any
    lastAuth,               \* the auth callback this step ran, if any
    fbMax,                  \* FBytes.max, None before the FBytes is made
    fbVal,                  \* FBytes._val
    lastAssign,             \* the assignment to FBytes.value this step made, if any
    xaVal,                  \* native: the value of the extended attribute
    lastXa,                 \* the getxattr call this step made, if any
    lastEnable,             \* the last enable_async_calls call, if any
    nReported               \* notifier: events the native layer has reported so far

vars == <<natCtx, natFile, natCurrent, cw, hw, Context_instances,
          GenericFile_instances, userCtx, userH, closeLog, freeOk, freeAfter,
          lastLookup, lastFinal, lastFree, crashed, nativeThreads, work_queue, wpc, wEntry, wResult,
          callbacks, reqKind, reqArg, fut, resolver, outcome, execLog, doneLog, mpc,
          ioData, ioPos, read_at_once, lastOp,
          nPhase, nStopping, nAsyncFor, nTimeout, nHasAction, nElapsed, nSinceEvent,
          nPosted, notifs, nFut, nEnds, nCons, lastCb, nReported,
          dListing, dCursor, decode_bytes, dPhase, dBuf, dOffset, dOut,
          auth_entries, function_auth_data, lastGet, lastAuth,
          fbMax, fbVal, lastAssign, xaVal, lastXa, lastEnable>>

\* the directory-enumeration state
dirVars == <<dListing, dCursor, decode_bytes, dPhase, dBuf, dOffset, dOut>>

\* the auth table
authVars == <<auth_entries, function_auth_data, lastGet, lastAuth>>

\* the registries, the wrappers and the dispatch layer
coreVars == <<natCtx, natFile, natCurrent, cw, hw, Context_instances,
              GenericFile_instances, userCtx, userH, closeLog, freeOk, freeAfter,
              lastLookup, lastFinal, lastFree, crashed, nativeThreads, work_queue, wpc,
              wEntry, wResult, callbacks, reqKind, reqArg, fut, resolver, outcome,
              execLog, doneLog, mpc>>

\* the notification stream
notifyVars == <<nPhase, nStopping, nAsyncFor, nTimeout, nHasAction, nElapsed, nSinceEvent,
                nPosted, notifs, nFut, nEnds, nCons, lastCb, nReported>>

\* the file-transfer state
ioVars == <<ioData, ioPos, read_at_once, lastOp>>

\* the state outside the registries, the wrappers and the dispatch layer
\* one capacity-bounded credential buffer
fbVars == <<fbMax, fbVal, lastAssign>>

\* one extended attribute
xaVars == <<xaVal, lastXa>>

\* what the caller saw of enable_async_calls
enVars == <<lastEnable>>

extVars == <<ioVars, notifyVars, dirVars, authVars, fbVars, xaVars, enVars>>

asyncVars == <<wpc, wEntry, wResult, callbacks, reqKind, reqArg, fut, resolver,
               outcome, execLog, doneLog, mpc>>

\* ------------------------------------------------------------ the heap

\* The part of the state that operations and finalisers transform.
Heap ==
    [ hw |-> hw, cw |-> cw, ci |-> Context_instances, fi |-> GenericFile_instances,
      natCtx |-> natCtx, natFile |-> natFile, closeLog |-> closeLog,
      freeOk |-> freeOk, freeAfter |-> freeAfter, q |-> work_queue,
      nt |-> {}, fin |-> {}, rel |-> {}, crashed |-> crashed ]

PutHeap(S) ==
    /\ hw' = S.hw
    /\ cw' = S.cw
    /\ Context_instances' = S.ci
    /\ GenericFile_instances' = S.fi
    /\ natCtx' = S.natCtx
    /\ natFile' = S.natFile
    /\ closeLog' = S.closeLog
    /\ freeOk' = S.freeOk
    /\ freeAfter' = S.freeAfter
    /\ work_queue' = S.q
    /\ nativeThreads' = S.nt
    /\ lastFinal' = S.fin
    /\ lastFree' = S.rel
    /\ crashed' = S.crashed

\* an operation of the registry / dispatch layer: it leaves the rest alone
Put(S) == PutHeap(S) /\ UNCHANGED extVars

\* an object identity not in use
FreeCW == [st |-> "free", smbobj |-> None, key |-> None, wq |-> FALSE, loop |-> None]
FreeHW == [st |-> "free", smbobj |-> None, key |-> None, parent |-> 0,
           closename |-> "", class |-> ""]

\* identity of the next wrapper object; 0 when the model has none left
FreshCW(S) ==
    IF \E n \in CW : S.cw[n].st = "free"
    THEN CHOOSE n \in CW : S.cw[n].st = "free" /\ \A m \in CW : S.cw[m].st = "free" => n <= m
    ELSE 0

FreshHW(S) ==
    IF \E n \in HW : S.hw[n].st = "free"
    THEN CHOOSE n \in HW : S.hw[n].st = "free" /\ \A m \in HW : S.hw[m].st = "free" => n <= m
    ELSE 0

\* the worker is inside entry.func of a request that calls the native library
WorkerInNative ==
    /\ wpc = "call"
    /\ wEntry \in ReqIds
    /\ reqKind[wEntry] \in BoundKinds
    /\ encode_str0(reqArg[wEntry]).err = "none"

\* thread t enters a native call
NativeEnter(t) == {t} \cup (IF t # "worker" /\ WorkerInNative THEN {"worker"} ELSE {})

\* ------------------------------------------------------- identity registry

\* Context.__new__(celf, _smbobj)
ContextNew(S, k) ==
    LET self == S.ci[k] IN
    IF self # 0 THEN [S |-> S, w |-> self]
    ELSE LET n == FreshCW(S) IN
         IF n = 0 THEN [S |-> S, w |-> 0]
         ELSE [S |-> [S EXCEPT !.cw[n] = [st |-> "live", smbobj |-> k, key |-> k,
                                           wq |-> FALSE, loop |-> None],
                               !.ci[k] = n],
               w |-> n]

GenericFileNewAlwaysConstructs(S, f, parent, closename, class) ==
    LET n == FreshHW(S) IN
    IF n = 0 THEN [S |-> S, w |-> 0, err |-> "nofresh"]
    ELSE [S |-> [S EXCEPT !.hw[n] = [st |-> "live", smbobj |-> f, key |-> f,
                                      parent |-> parent, closename |-> closename,
                                      class |-> class],
                          !.fi[f] = n],
          w |-> n, err |-> "ok"]

GenericFileNewWithoutAssert(S, f, parent, closename, class) ==
    LET self == S.fi[f] IN
    IF self = 0
    THEN LET n == FreshHW(S) IN
         IF n = 0 THEN [S |-> S, w |-> 0, err |-> "nofresh"]
         ELSE [S |-> [S EXCEPT !.hw[n] = [st |-> "live", smbobj |-> f, key |-> f,
                                           parent |-> parent, closename |-> closename,
                                           class |-> class],
                               !.fi[f] = n],
               w |-> n, err |-> "ok"]
    ELSE [S |-> S, w |-> self, err |-> "ok"]

\* GenericFile.__new__(celf, _smbobj, parent, _closename)
GenericFileNew(S, f, parent, closename, class) ==
    LET self == S.fi[f] IN
    IF self = 0
    THEN LET n == FreshHW(S) IN
         IF n = 0 THEN [S |-> S, w |-> 0, err |-> "nofresh"]
         ELSE [S |-> [S EXCEPT !.hw[n] = [st |-> "live", smbobj |-> f, key |-> f,
                                           parent |-> parent, closename |-> closename,
                                           class |-> class],
                               !.fi[f] = n],
               w |-> n, err |-> "ok"]
    ELSE IF S.hw[self].parent = parent /\ S.hw[self].closename = closename
         THEN [S |-> S, w |-> self, err |-> "ok"]
         ELSE [S |-> S, w |-> 0, err |-> "assert"]

\* File.__new__(celf, _smbobj, _parent)
FileNew(S, f, parent) == GenericFileNew(S, f, parent, "FunctionClose", "File")

\* Directory.__new__(celf, _smbobj, _parent)
DirectoryNew(S, f, parent) == GenericFileNew(S, f, parent, "FunctionClosedir", "Directory")

HandleNew(S, f, parent, class) ==
    IF class = "File" THEN FileNew(S, f, parent) ELSE DirectoryNew(S, f, parent)

\* the native close function a wrapper class is meant to use
CloseFunctionOf(class) == IF class = "File" THEN "FunctionClose" ELSE "FunctionClosedir"

\* ----------------------------------------------------------- native layer

\* smbc_free_context(k, shutdown_ctx) on thread t.  busy: the context still has
\* server connections.  Releasing an address that is not a live context is
\* undefined: ub picks between the process dying and the call returning 0.
NativeFree(S, k, shutdown_ctx, busy, t, ub) ==
    LET S1 == [S EXCEPT !.nt = NativeEnter(t)] IN
    IF S.natCtx[k] # "live"
    THEN [S |-> [S1 EXCEPT !.crashed = (ub = "crash")], rc |-> 0]
    ELSE IF shutdown_ctx = 0 /\ (busy \/ \E f \in FileIds : S.natFile[f] = k)
         THEN [S |-> S1, rc |-> 1]
         ELSE [S |-> [S1 EXCEPT !.natCtx[k] = "free",
                                !.natFile = [f \in FileIds |->
                                               IF S.natFile[f] = k THEN 0 ELSE S.natFile[f]]],
               rc |-> 0]

\* ------------------------------------------------ GenericFile.close, __del__

GenericFileCloseKeepsSmbobj(S, h, t) ==
    IF S.hw[h].smbobj # None
    THEN IF S.cw[S.hw[h].parent].smbobj = None
         THEN [S EXCEPT !.crashed = TRUE]
         ELSE [S EXCEPT !.closeLog[h] = Append(@, S.hw[h].closename),
                        !.natFile[S.hw[h].smbobj] = 0,
                        !.nt = NativeEnter(t)]
    ELSE S

\* GenericFile.close(self) on thread t.  With the parent's _smbobj already None
\* the accessor smbc_get<closename>(NULL) dereferences a null context.
GenericFileClose(S, h, t) ==
    IF S.hw[h].smbobj # None
    THEN IF S.cw[S.hw[h].parent].smbobj = None
         THEN [S EXCEPT !.crashed = TRUE]
         ELSE [S EXCEPT !.closeLog[h] = Append(@, S.hw[h].closename),
                        !.natFile[S.hw[h].smbobj] = 0,
                        !.nt = NativeEnter(t),
                        !.hw[h].smbobj = None]
    ELSE S

\* what is recorded of a finalised wrapper: its class, whether it was created
\* for a native identifier, whether it had been closed before its finaliser
\* ran, the native close / release calls made through it in its life, and how
\* many of them followed a successful one
Finalised(class, had, wasClosed, calls, after) ==
    [class |-> class, had |-> had, wasClosed |-> wasClosed, calls |-> calls, after |-> after]

\* GenericFile.__del__(self), then the object is gone and its weak registry
\* entry with it
GenericFileDel(S, h, t) ==
    LET S1 == GenericFileClose(S, h, t) IN
    IF S1.crashed THEN S1
    ELSE [S1 EXCEPT !.hw[h] = FreeHW,
                    !.closeLog[h] = <<>>,
                    !.fin = @ \cup {Finalised(S.hw[h].class, S.hw[h].key # None,
                                               S.hw[h].smbobj = None, S1.closeLog[h], 0)},
                    !.fi = [f \in FileIds |-> IF S1.fi[f] = h THEN 0 ELSE S1.fi[f]]]

\* ---------------------------------------------------- Context.close, __del__

\* one smbc_free_context call made through wrapper c, with the bookkeeping of
\* how many release calls the wrapper has made
FreeThrough(S, c, shutdown_ctx, busy, t, ub) ==
    LET r == NativeFree(S, S.cw[c].smbobj, shutdown_ctx, busy, t, ub) IN
    [S |-> [r.S EXCEPT !.freeAfter[c] = IF S.freeOk[c] > 0 THEN @ + 1 ELSE @,
                       !.freeOk[c] = IF r.rc = 0 /\ ~r.S.crashed THEN @ + 1 ELSE @,
                       !.rel = IF r.rc = 0 /\ ~r.S.crashed
                               THEN @ \cup {[c |-> c, wq |-> S.cw[c].wq, t |-> t]}
                               ELSE @],
     rc |-> r.rc]

\* Context.__del__(self), then the object is gone and its weak registry entry
\* with it
ContextDel(S, c, t, ub) ==
    LET S1 == IF S.cw[c].smbobj # None
              THEN LET S0 == IF S.cw[c].wq THEN [S EXCEPT !.q = Append(@, Sentinel)] ELSE S
                       r == FreeThrough(S0, c, 1, FALSE, t, ub)
                   IN IF r.S.crashed THEN r.S ELSE [r.S EXCEPT !.cw[c].smbobj = None]
              ELSE S
    IN IF S1.crashed THEN S1
       ELSE [S1 EXCEPT !.cw[c] = FreeCW,
                       !.freeOk[c] = 0,
                       !.freeAfter[c] = 0,
                       !.fin = @ \cup {Finalised("Context", S.cw[c].key # None,
                                                  S.cw[c].smbobj = None,
                                                  [i \in 1..S1.freeOk[c] |-> "free_context"],
                                                  S1.freeAfter[c])},
                       !.ci = [k \in CtxKeys |-> IF S1.ci[k] = c THEN 0 ELSE S1.ci[k]]]

ContextCloseTailKeepsSmbobj(S, c, shutdown_ctx, busy, t, ub) ==
    FreeThrough(S, c, shutdown_ctx, busy, t, ub).S

\* Context.close after the optional join: release, raise on failure, clear
ContextCloseTail(S, c, shutdown_ctx, busy, t, ub) ==
    LET r == FreeThrough(S, c, shutdown_ctx, busy, t, ub) IN
    IF r.S.crashed \/ r.rc # 0 THEN r.S
    ELSE [r.S EXCEPT !.cw[c].smbobj = None]

\* ------------------------------------------------------ reference counting

\* request r's func is a bound method of the Context
Bound(r) == r \in ReqIds /\ r <= Len(reqKind) /\ reqKind[r] \in BoundKinds

Roots(uc, uh, we, wr, cbs) == [uc |-> uc, uh |-> uh, we |-> we, wr |-> wr, cbs |-> cbs]

HandleReferenced(R, h) ==
    \/ h \in R.uh
    \/ R.wr = h
    \/ \E i \in 1..Len(R.cbs) : R.cbs[i].res = h

CtxReferenced(S, R, c) ==
    \/ c \in R.uc
    \/ \E h \in HW : S.hw[h].st = "live" /\ S.hw[h].parent = c
    \/ /\ c = AsyncCtx
       /\ \/ Bound(R.we)
          \/ \E i \in 1..Len(S.q) : Bound(S.q[i])
          \/ \E i \in 1..Len(R.cbs) : R.cbs[i].out = "exception" /\ Bound(R.cbs[i].r)

RECURSIVE DelHandles(_, _, _)
DelHandles(S, hs, t) ==
    IF hs = {} \/ S.crashed THEN S
    ELSE LET h == CHOOSE x \in hs : \A y \in hs : x <= y
         IN DelHandles(GenericFileDel(S, h, t), hs \ {h}, t)

RECURSIVE DelContexts(_, _, _, _)
DelContexts(S, cs, t, ub) ==
    IF cs = {} \/ S.crashed THEN S
    ELSE LET c == CHOOSE x \in cs : \A y \in cs : x <= y
         IN DelContexts(ContextDel(S, c, t, ub), cs \ {c}, t, ub)

\* Run, on thread t, the finalisers of every wrapper that R no longer reaches:
\* handles first (a handle holds its parent Context), then Contexts.
Collect(S, R, t, ub) ==
    LET S1 == DelHandles(S, {h \in HW : S.hw[h].st = "live" /\ ~HandleReferenced(R, h)}, t)
    IN DelContexts(S1, {c \in CW : S1.cw[c].st = "live" /\ ~CtxReferenced(S1, R, c)}, t, ub)

\* some Context wrapper holds an address that is not a live native context
DanglingExists ==
    \E c \in CW : cw[c].st = "live" /\ cw[c].smbobj # None /\ natCtx[cw[c].smbobj] # "live"

\* the outcomes of undefined behaviour a step must choose between
UbChoices == IF DanglingExists THEN {"crash", "ok"} ELSE {"ok"}

\* A registry lookup: which registry, whether a wrapper was registered under
\* the key (hit), whether the lookup returned that wrapper (same), whether the
\* wrapper it returned had been closed before (closed).
Lookup(reg, before, got, closed) ==
    [reg |-> reg, hit |-> before # 0, same |-> got = before, closed |-> closed]

NoLookup == [reg |-> "none", hit |-> FALSE, same |-> FALSE, closed |-> FALSE]

\* --------------------------------------------------------------- Init

\* what is recorded of a File operation: the operation, whether the handle had
\* been closed, the native calls it made, whether one of them failed, the
\* exception raised, the bytes / the count returned, the bytes that remained
\* in the file and the length asked for, the last native return value, and
\* whether a native read was given more room than the buffer has
OpRecord(op, closed, calls, failed, err, ret, n, rem, req, lastn, overflow) ==
    [op |-> op, closed |-> closed, calls |-> calls, failed |-> failed, err |-> err,
     ret |-> ret, n |-> n, rem |-> rem, req |-> req, lastn |-> lastn,
     overflow |-> overflow, small |-> FALSE, misfit |-> FALSE, badExt |-> FALSE]

NoOp == OpRecord("none", FALSE, 0, FALSE, "none", <<>>, 0, <<>>, 0, 0, FALSE)

\* the state outside the registries and the dispatch layer when nothing has
\* been done with it
IoIdle ==
    /\ ioData = <<>>
    /\ ioPos = 0
    /\ read_at_once = ReadAtOnceDefault
    /\ lastOp = NoOp

\* self.timeout == None
NoTimeout == 0 - 1

\* what is recorded of a c_notifier invocation: the events it was given,
\* self.stopping when it looked, the time since the last delivered event
\* before and at the invocation, whether the action's result made it raise,
\* the value returned to the library, and whether it posted a timeout
\* sentinel / the end-marker; whether it read a field not yet assigned, the
\* events it posted, and the number of the event at which the action returned
\* a nonzero int after returning 0 for all before (0: none)
CbRecord(called, nr, stopFlag, prevSince, since, raised, ret, sentNone, sentEnd) ==
    [called |-> called, nr |-> nr, stopFlag |-> stopFlag, prevSince |-> prevSince,
     since |-> since, raised |-> raised, ret |-> ret, sentNone |-> sentNone,
     sentEnd |-> sentEnd, uninit |-> FALSE, items |-> 0, stopAt |-> 0]

NoCb == CbRecord(FALSE, 0, FALSE, 0, 0, FALSE, 0, FALSE, FALSE)

\* no notification stream
NotifyIdle ==
    /\ nPhase = "none"
    /\ nStopping = FALSE
    /\ nAsyncFor = FALSE
    /\ nTimeout = NoTimeout
    /\ nHasAction = FALSE
    /\ nElapsed = 0
    /\ nSinceEvent = 0
    /\ nPosted = <<>>
    /\ notifs = <<>>
    /\ nFut = "pending"
    /\ nEnds = 0
    /\ nCons = "none"
    /\ lastCb = NoCb
    /\ nReported = 0

\* no directory is being enumerated
DirIdle ==
    /\ dListing = <<>>
    /\ dCursor = 0
    /\ decode_bytes = TRUE
    /\ dPhase = "none"
    /\ dBuf = <<>>
    /\ dOffset = 0
    /\ dOut = <<>>

\* an auth-table lookup: the key given, the exception raised, the result
GetRecord(called, key, err, result) ==
    [called |-> called, key |-> key, err |-> err, result |-> result]

NoGet == GetRecord(FALSE, <<>>, "none", <<>>)

\* a run of the auth callback: the entry do_auth selected, the exception
\* raised, the three buffers of the library before and after
AuthRecord(called, entry, err, before, after) ==
    [called |-> called, entry |-> entry, err |-> err, before |-> before, after |-> after]

NoAuth == AuthRecord(FALSE, <<>>, "none", <<>>, <<>>)

\* SimpleAuthEntry.__init__: self._entries = {}
AuthIdle ==
    /\ auth_entries = <<>>
    /\ function_auth_data = "None"
    /\ lastGet = NoGet
    /\ lastAuth = NoAuth

\* an assignment to FBytes.value: the value given, the exception raised,
\* self._val before it
AssignRecord(called, arg, err, prev) ==
    [called |-> called, arg |-> arg, err |-> err, prev |-> prev]

NoAssign == AssignRecord(FALSE, <<>>, "none", <<>>)

\* no FBytes has been made
FbIdle ==
    /\ fbMax = None
    /\ fbVal = <<>>
    /\ lastAssign = NoAssign

\* a getxattr call: the exception raised, the native calls made, how the size
\* query and the fetch of the value went ("ok", an error code, "none" when not
\* made), whether None came back, the value that came back; the method called
\* ("sync" for getxattr, "async" for getxattr_async) and its arguments
XaRecord(called, err, calls, size, fetch, isNone, result) ==
    [called |-> called, err |-> err, calls |-> calls, size |-> size, fetch |-> fetch,
     isNone |-> isNone, result |-> result, mode |-> "sync", args |-> <<>>]

NoXa == XaRecord(FALSE, "none", 0, "none", "none", FALSE, [type |-> "None", val |-> <<>>])

\* no extended attribute is looked at
XaIdle ==
    /\ xaVal = <<>>
    /\ lastXa = NoXa

\* an enable_async_calls call: the loop given, whether the Context had a
\* queue and which loop it had, the exception raised, whether a thread was
\* started
EnableRecord(called, loop, had, prevLoop, err, started) ==
    [called |-> called, loop |-> loop, had |-> had, prevLoop |-> prevLoop,
     err |-> err, started |-> started]

NoEnable == EnableRecord(FALSE, None, FALSE, None, "none", FALSE)

EnIdle == lastEnable = NoEnable

ExtInit ==
    /\ IoIdle
    /\ NotifyIdle
    /\ DirIdle
    /\ AuthIdle
    /\ FbIdle
    /\ XaIdle
    /\ EnIdle

Init ==
    /\ natCtx = [k \in CtxIds |-> "free"]
    /\ natFile = [f \in FileIds |-> 0]
    /\ natCurrent = None
    /\ cw = [c \in CW |-> FreeCW]
    /\ hw = [h \in HW |-> FreeHW]
    /\ Context_instances = [k \in CtxKeys |-> 0]
    /\ GenericFile_instances = [f \in FileIds |-> 0]
    /\ userCtx = {}
    /\ userH = {}
    /\ closeLog = [h \in HW |-> <<>>]
    /\ freeOk = [c \in CW |-> 0]
    /\ freeAfter = [c \in CW |-> 0]
    /\ lastLookup = NoLookup
    /\ lastFinal = {}
    /\ lastFree = {}
    /\ crashed = FALSE
    /\ nativeThreads = {}
    /\ work_queue = <<>>
    /\ wpc = "none"
    /\ wEntry = NoEntry
    /\ wResult = None
    /\ callbacks = <<>>
    /\ reqKind = <<>>
    /\ reqArg = <<>>
    /\ fut = <<>>
    /\ resolver = <<>>
    /\ outcome = <<>>
    /\ execLog = <<>>
    /\ doneLog = <<>>
    /\ mpc = [op |-> "run"]
    /\ ExtInit

CallerRuns == ~crashed /\ mpc.op = "run"

\* ------------------------------------------------- synchronous operations

\* Context.create(init): smbc_new_context hands out a free address (possibly
\* one it handed out before).  A creation that fails raises and returns no
\* wrapper; it is not a step of the model.
ContextCreate ==
    /\ CallerRuns
    /\ \E k \in CtxIds :
         /\ natCtx[k] = "free"
         /\ LET S0 == [Heap EXCEPT !.natCtx[k] = "live"]
                r == ContextNew(S0, k)
            IN      /\ r.w # 0
                    /\ Put(r.S)
                    /\ userCtx' = userCtx \cup {r.w}
                    /\ lastLookup' = Lookup("ctx", Context_instances[k], r.w,
                                             cw[r.w].st = "live" /\ cw[r.w].smbobj = None)
    /\ UNCHANGED <<natCurrent, userH>>
    /\ UNCHANGED asyncVars

\* Context.set_current(self): smbc_set_context returns the previous current
\* context (NULL at first) and installs this one unless it is NULL.
ContextSetCurrent(c) ==
    /\ CallerRuns
    /\ c \in userCtx
    /\ LET prev == natCurrent
           r == ContextNew(Heap, prev)
       IN /\ r.w # 0
          /\ Put(r.S)
          /\ natCurrent' = IF cw[c].smbobj # None THEN cw[c].smbobj ELSE natCurrent
          /\ userCtx' = userCtx \cup {r.w}
          /\ lastLookup' = Lookup("ctx", Context_instances[prev], r.w,
                                   prev # None /\ cw[r.w].st = "live" /\ cw[r.w].smbobj = None)
    /\ UNCHANGED userH
    /\ UNCHANGED asyncVars

\* The body of Context.open / creat / open_print_job (class File) and
\* Context.opendir (class Directory) on thread t: the native call, then the
\* wrapper lookup.  res: "crash" | "fail" | "assert" | "ok".
ContextOpenBody(S, c, class, f, ok, ub) ==
    IF S.cw[c].smbobj = None
    THEN [S |-> [S EXCEPT !.crashed = TRUE], w |-> 0, res |-> "crash"]
    ELSE IF S.natCtx[S.cw[c].smbobj] # "live"
    THEN IF ub = "crash"
         THEN [S |-> [S EXCEPT !.crashed = TRUE], w |-> 0, res |-> "crash"]
         ELSE [S |-> S, w |-> 0, res |-> "fail"]
    ELSE IF ~ok \/ S.natFile[f] # 0
    THEN [S |-> S, w |-> 0, res |-> "fail"]
    ELSE LET S0 == [S EXCEPT !.natFile[f] = S.cw[c].smbobj]
             r == HandleNew(S0, f, c, class)
         IN [S |-> r.S, w |-> r.w, res |-> IF r.w # 0 THEN "ok" ELSE r.err]

\* the lookup an open made: none when the native open failed, "assert" when
\* GenericFile.__new__'s assertion failed and no wrapper was returned
OpenLookup(r, f) ==
    IF r.res = "ok"
    THEN Lookup("file", GenericFile_instances[f], r.w,
                hw[r.w].st = "live" /\ hw[r.w].smbobj = None)
    ELSE IF r.res = "assert"
    THEN Lookup("assert", GenericFile_instances[f], 0, FALSE)
    ELSE NoLookup

\* what a rejected path argument leaves as the record of the call
Rejected(err) == [NoLookup EXCEPT !.reg = err]

ContextOpenEncodesLate(c, class, fname) ==
    /\ CallerRuns
    /\ c \in userCtx
    /\ \E f \in FileIds, ok \in BOOLEAN, ub \in UbChoices :
         /\ ok \/ f = 1
         /\ ub = "ok" \/ (cw[c].smbobj # None /\ natCtx[cw[c].smbobj] # "live")
         /\ LET r == ContextOpenBody([Heap EXCEPT !.nt = IF cw[c].smbobj # None
                                                          THEN NativeEnter("main") ELSE @],
                                     c, class, f, ok, ub)
                enc == encode_str0(fname)
            IN /\ r.res # "nofresh"
               /\ Put(r.S)
               /\ userH' = IF r.res = "ok" /\ enc.err = "none" THEN userH \cup {r.w} ELSE userH
               /\ lastLookup' = IF enc.err # "none" /\ ~r.S.crashed
                                 THEN Rejected(enc.err) ELSE OpenLookup(r, f)
    /\ UNCHANGED <<natCurrent, userCtx>>
    /\ UNCHANGED asyncVars

\* Context.open / creat / open_print_job / opendir(fname, ...) called by the
\* caller: c_fname = encode_str0(fname) is the first statement and raises on a
\* wrong type or an embedded NUL; only then come the native call and the
\* wrapper lookup.
ContextOpen(c, class, fname) ==
    /\ CallerRuns
    /\ c \in userCtx
    /\ IF encode_str0(fname).err # "none"
       THEN /\ Put(Heap)
            /\ userH' = userH
            /\ lastLookup' = Rejected(encode_str0(fname).err)
       ELSE \E f \in FileIds, ok \in BOOLEAN, ub \in UbChoices :
              /\ ok \/ f = 1
              /\ ub = "ok" \/ (cw[c].smbobj # None /\ natCtx[cw[c].smbobj] # "live")
              /\ LET r == ContextOpenBody([Heap EXCEPT !.nt = IF cw[c].smbobj # None
                                                               THEN NativeEnter("main") ELSE @],
                                          c, class, f, ok, ub)
                 IN /\ r.res # "nofresh"
                    /\ Put(r.S)
                    /\ userH' = IF r.res = "ok" THEN userH \cup {r.w} ELSE userH
                    /\ lastLookup' = OpenLookup(r, f)
    /\ UNCHANGED <<natCurrent, userCtx>>
    /\ UNCHANGED asyncVars

\* a Context-bound operation that returns no wrapper (stat, unlink, ...)
ContextOpBody(S, c, ok, ub) ==
    IF S.cw[c].smbobj = None
    THEN [S |-> [S EXCEPT !.crashed = TRUE], w |-> 0, res |-> "crash"]
    ELSE IF S.natCtx[S.cw[c].smbobj] # "live"
    THEN IF ub = "crash"
         THEN [S |-> [S EXCEPT !.crashed = TRUE], w |-> 0, res |-> "crash"]
         ELSE [S |-> S, w |-> 0, res |-> "fail"]
    ELSE [S |-> S, w |-> 0, res |-> IF ok THEN "ok" ELSE "fail"]

RECURSIVE FirstEncodeError(_)
\* the exception of the first encode_str0 call that raises, "none" if none does
FirstEncodeError(names) ==
    IF names = <<>> THEN "none"
    ELSE IF encode_str0(Head(names)).err # "none" THEN encode_str0(Head(names)).err
    ELSE FirstEncodeError(Tail(names))

\* the path / name arguments of an operation: one (unlink, stat, mkdir, ...)
\* or two (rename, setxattr, removexattr)
NameLists == {<<a>> : a \in PathChoices} \cup {<<a, b>> : a, b \in PathChoices}

\* Context.unlink / rename / stat / mkdir / ... called by the caller: every
\* path or name argument goes through encode_str0 before the native call
ContextOp(c, names) ==
    /\ CallerRuns
    /\ c \in userCtx
    /\ IF FirstEncodeError(names) # "none"
       THEN /\ Put(Heap)
            /\ lastLookup' = Rejected(FirstEncodeError(names))
       ELSE \E ok \in BOOLEAN, ub \in UbChoices :
              /\ ub = "ok" \/ (cw[c].smbobj # None /\ natCtx[cw[c].smbobj] # "live")
              /\ Put(ContextOpBody([Heap EXCEPT !.nt = IF cw[c].smbobj # None
                                                        THEN NativeEnter("main") ELSE @],
                                   c, ok, ub).S)
              /\ lastLookup' = NoLookup
    /\ UNCHANGED <<natCurrent, userCtx, userH>>
    /\ UNCHANGED asyncVars

\* GenericFile.close() called by the caller
HandleClose(h) ==
    /\ CallerRuns
    /\ h \in userH
    /\ Put(GenericFileClose(Heap, h, "main"))
    /\ lastLookup' = NoLookup
    /\ UNCHANGED <<natCurrent, userCtx, userH>>
    /\ UNCHANGED asyncVars

\* the caller drops its last reference to handle wrapper h
DropHandle(h) ==
    /\ CallerRuns
    /\ h \in userH
    /\ \E ub \in UbChoices :
         Put(Collect(Heap, Roots(userCtx, userH \ {h}, wEntry, wResult, callbacks), "main", ub))
    /\ userH' = userH \ {h}
    /\ lastLookup' = NoLookup
    /\ UNCHANGED <<natCurrent, userCtx>>
    /\ UNCHANGED asyncVars

\* the caller drops its last reference to Context wrapper c
DropContext(c) ==
    /\ CallerRuns
    /\ c \in userCtx
    /\ \E ub \in UbChoices :
         Put(Collect(Heap, Roots(userCtx \ {c}, userH, wEntry, wResult, callbacks), "main", ub))
    /\ userCtx' = userCtx \ {c}
    /\ lastLookup' = NoLookup
    /\ UNCHANGED <<natCurrent, userH>>
    /\ UNCHANGED asyncVars

\* number of end-of-work entries waiting in a queue
Sentinels(q) == Cardinality({i \in 1..Len(q) : q[i] = Sentinel})

ClosePutNothing(q) == q

\* self._work_queue.put(_WorkQueueEntry(func = None, args = None, done_fute = None))
ClosePut(q) == Append(q, Sentinel)

\* Context.close(shutdown_ctx): with a work queue, queue the end-of-work entry
\* and join the worker (ContextCloseJoined continues); without, release now.
ContextClose(c) ==
    /\ CallerRuns
    /\ c \in userCtx
    /\ \E shutdown_ctx \in {0, 1}, busy \in BOOLEAN, ub \in UbChoices :
         /\ shutdown_ctx = 1 => ~busy
         /\ (cw[c].smbobj # None /\ cw[c].wq) => Sentinels(work_queue) < MaxSentinels
         /\ IF cw[c].smbobj = None
            THEN Put(Heap) /\ mpc' = mpc
            ELSE IF cw[c].wq
            THEN /\ Put([Heap EXCEPT !.q = ClosePut(@)])
                 /\ mpc' = [op |-> "join", c |-> c, shutdown_ctx |-> shutdown_ctx, busy |-> busy]
            ELSE /\ Put(ContextCloseTail(Heap, c, shutdown_ctx, busy, "main", ub))
                 /\ mpc' = mpc
    /\ lastLookup' = NoLookup
    /\ UNCHANGED <<natCurrent, userCtx, userH>>
    /\ UNCHANGED <<wpc, wEntry, wResult, callbacks, reqKind, reqArg, fut, resolver,
                   outcome, execLog, doneLog>>

\* ------------------------------------------------- asynchronous dispatch

\* event loops of the caller
Loops == {1, 2}
\* the loop of the dispatch specifications
MainLoop == 1

EnableAsyncCallsAlwaysStarts(loop) ==
    /\ CallerRuns
    /\ AsyncCtx \in userCtx
    /\ PutHeap([Heap EXCEPT !.cw[AsyncCtx].wq = TRUE, !.cw[AsyncCtx].loop = loop,
                            !.q = <<>>])
    /\ wpc' = "start"
    /\ lastEnable' = EnableRecord(TRUE, loop, cw[AsyncCtx].wq, cw[AsyncCtx].loop, "none", TRUE)
    /\ UNCHANGED <<ioVars, notifyVars, dirVars, authVars, fbVars, xaVars>>
    /\ lastLookup' = NoLookup
    /\ UNCHANGED <<natCurrent, userCtx, userH>>
    /\ UNCHANGED <<wEntry, wResult, callbacks, reqKind, reqArg, fut, resolver,
                   outcome, execLog, doneLog, mpc>>

\* Context.enable_async_calls(loop): the first call creates the queue, records
\* the loop and starts the worker thread; a later call asserts that the loop
\* is the recorded one and changes nothing.
EnableAsyncCalls(loop) ==
    /\ CallerRuns
    /\ AsyncCtx \in userCtx
    /\ IF cw[AsyncCtx].wq
       THEN /\ PutHeap(Heap)
            /\ wpc' = wpc
            /\ lastEnable' = EnableRecord(TRUE, loop, TRUE, cw[AsyncCtx].loop,
                                          IF cw[AsyncCtx].loop = loop
                                          THEN "none" ELSE "AssertionError", FALSE)
       ELSE /\ PutHeap([Heap EXCEPT !.cw[AsyncCtx].wq = TRUE, !.cw[AsyncCtx].loop = loop])
            /\ wpc' = "start"
            /\ lastEnable' = EnableRecord(TRUE, loop, FALSE, cw[AsyncCtx].loop, "none", TRUE)
    /\ UNCHANGED <<ioVars, notifyVars, dirVars, authVars, fbVars, xaVars>>
    /\ lastLookup' = NoLookup
    /\ UNCHANGED <<natCurrent, userCtx, userH>>
    /\ UNCHANGED <<wEntry, wResult, callbacks, reqKind, reqArg, fut, resolver,
                   outcome, execLog, doneLog, mpc>>

\* the one enable_async_calls call the caller of the dispatch specifications
\* makes
EnableAsyncCallsOnce == ~cw[AsyncCtx].wq /\ EnableAsyncCalls(MainLoop)

CallAsyncPutFirst(q, r) == <<r>> \o q

\* self._work_queue.put(_WorkQueueEntry(func, args, done_fute))
CallAsyncPut(q, r) == Append(q, r)

\* Context._call_async(func, args), reached from every *_async method (whose
\* body is this call and nothing else): the only precondition is the assertion
\* that a loop has been recorded; the arguments are stored as given.
CallAsync(kind, arg) ==
    /\ CallerRuns
    /\ AsyncCtx \in userCtx
    /\ cw[AsyncCtx].loop # None
    /\ Len(reqKind) < MaxReq
    /\ Put([Heap EXCEPT !.q = CallAsyncPut(@, Len(reqKind) + 1)])
    /\ reqKind' = Append(reqKind, kind)
    /\ reqArg' = Append(reqArg, arg)
    /\ fut' = Append(fut, "pending")
    /\ resolver' = Append(resolver, "none")
    /\ outcome' = Append(outcome, "none")
    /\ lastLookup' = NoLookup
    /\ UNCHANGED <<natCurrent, userCtx, userH>>
    /\ UNCHANGED <<wpc, wEntry, wResult, callbacks, execLog, doneLog, mpc>>

\* _process_work_queue, first statement: work_queue = _wderef(w_self)._work_queue
WorkerStart ==
    /\ ~crashed
    /\ wpc = "start"
    /\ wpc' = IF cw[AsyncCtx].st = "live" THEN "get" ELSE "crashed"
    /\ Put(Heap)
    /\ lastLookup' = NoLookup
    /\ UNCHANGED <<natCurrent, userCtx, userH>>
    /\ UNCHANGED <<wEntry, wResult, callbacks, reqKind, reqArg, fut, resolver,
                   outcome, execLog, doneLog, mpc>>

\* _process_work_queue: entry = work_queue.get(); the end-of-work entry ends
\* the thread, any other entry's func is entered.  Rebinding `entry` (and at
\* the thread's end dropping the locals) can finalise wrappers on this thread.
WorkerGet ==
    /\ ~crashed
    /\ wpc = "get"
    /\ work_queue # <<>>
    /\ LET e == Head(work_queue)
           S0 == [Heap EXCEPT !.q = Tail(@)]
       IN \E ub \in UbChoices :
            IF e = Sentinel
            THEN /\ Put(Collect(S0, Roots(userCtx, userH, NoEntry, None, callbacks), "worker", ub))
                 /\ wpc' = "exited"
                 /\ wEntry' = NoEntry
                 /\ wResult' = None
                 /\ execLog' = execLog
            ELSE /\ LET S1 == Collect(S0, Roots(userCtx, userH, e, wResult, callbacks), "worker", ub)
                    IN Put([S1 EXCEPT !.nt = IF Bound(e) /\ encode_str0(reqArg[e]).err = "none"
                                            THEN {"worker"} ELSE @])
                 /\ wpc' = "call"
                 /\ wEntry' = e
                 /\ wResult' = wResult
                 /\ execLog' = Append(execLog, e)
    /\ lastLookup' = NoLookup
    /\ UNCHANGED <<natCurrent, userCtx, userH>>
    /\ UNCHANGED <<callbacks, reqKind, reqArg, fut, resolver, outcome, doneLog, mpc>>

\* entry.func(*entry.args): flush_async's lambda takes one argument and is
\* called with none, so it always raises; a Context method first passes its
\* path argument through encode_str0, which raises before any native call
EntryFunc(S, kind, arg, f, ok, ub) ==
    IF kind = "flush" THEN [S |-> S, w |-> 0, res |-> "fail"]
    ELSE IF encode_str0(arg).err # "none" THEN [S |-> S, w |-> 0, res |-> "fail"]
    ELSE IF kind = "op" THEN ContextOpBody(S, AsyncCtx, ok, ub)
    ELSE ContextOpenBody(S, AsyncCtx, "File", f, ok, ub)

WorkerPostResolvesDirectly(cbs, fu, rs, r, out, res) ==
    [cbs |-> cbs, fut |-> [fu EXCEPT ![r] = out], resolver |-> [rs EXCEPT ![r] = "worker"]]

WorkerPostPrepends(cbs, fu, rs, r, out, res) ==
    [cbs |-> <<[r |-> r, out |-> out, res |-> res]>> \o cbs, fut |-> fu, resolver |-> rs]

\* _wderef(w_self).loop.call_soon_threadsafe(return_result / return_exception, ...)
WorkerPost(cbs, fu, rs, r, out, res) ==
    [cbs |-> Append(cbs, [r |-> r, out |-> out, res |-> res]), fut |-> fu, resolver |-> rs]

\* _process_work_queue: the call returns or raises; `result` is rebound on
\* success; the outcome is posted to the loop through the Context, which must
\* still exist (_wderef asserts it), else the thread dies of the assertion.
WorkerReturn ==
    /\ ~crashed
    /\ wpc = "call"
    /\ LET r == wEntry
           kind == reqKind[r]
       IN \E f \in FileIds, ok \in BOOLEAN, ub \in UbChoices :
            /\ kind = "flush" => (f = 1 /\ ok)
            /\ kind = "op" => f = 1
            /\ kind = "open" => (ok \/ f = 1)
            /\ LET call == EntryFunc(Heap, kind, reqArg[r], f, ok, ub)
                   good == call.res = "ok"
                   wr1 == IF good THEN call.w ELSE wResult
                   S1 == Collect(call.S, Roots(userCtx, userH, r, wr1, callbacks), "worker", ub)
                   alive == S1.cw[AsyncCtx].st = "live"
                   p == WorkerPost(callbacks, fut, resolver, r,
                                   IF good THEN "result" ELSE "exception", call.w)
               IN /\ call.res # "nofresh"
                  /\ IF call.S.crashed \/ S1.crashed
                     THEN /\ Put([S1 EXCEPT !.crashed = TRUE])
                          /\ UNCHANGED <<wpc, wResult, wEntry, callbacks, fut, resolver, outcome>>
                          /\ lastLookup' = NoLookup
                     ELSE /\ outcome' = [outcome EXCEPT ![r] = IF good THEN "ok" ELSE "fail"]
                          /\ lastLookup' = IF kind = "open" THEN OpenLookup(call, f) ELSE NoLookup
                          /\ IF alive
                             THEN /\ Put(S1)
                                  /\ wpc' = "get"
                                  /\ wEntry' = wEntry
                                  /\ wResult' = wr1
                                  /\ callbacks' = p.cbs
                                  /\ fut' = p.fut
                                  /\ resolver' = p.resolver
                             ELSE /\ Put(Collect(S1, Roots(userCtx, userH, NoEntry, None, callbacks),
                                                 "worker", ub))
                                  /\ wpc' = "crashed"
                                  /\ wEntry' = NoEntry
                                  /\ wResult' = None
                                  /\ UNCHANGED <<callbacks, fut, resolver>>
    /\ UNCHANGED <<natCurrent, userCtx, userH>>
    /\ UNCHANGED <<reqKind, reqArg, execLog, doneLog, mpc>>

ReturnOutcomeUnchecked(state, alive, out) == out

\* return_result / return_exception on a result slot: `done_fute` is None
\* when the weak reference is dead, and a slot that is done (resolved or
\* cancelled) is left alone.  A slot the consumer dropped lives on while the
\* worker's `entry` refers to it and is then set with nobody to see it.
ReturnOutcome(state, alive, out) ==
    IF state = "pending" THEN out
    ELSE IF state = "dropped" /\ alive THEN "lost"
    ELSE state

\* the event loop runs the oldest posted callback: return_result /
\* return_exception resolve the future unless it is gone or already done.
\* The caller receives the result object through the future it awaits.
LoopCallback ==
    /\ CallerRuns
    /\ callbacks # <<>>
    /\ LET cb == Head(callbacks)
           uh1 == IF cb.res # 0 /\ fut[cb.r] = "pending" THEN userH \cup {cb.res} ELSE userH
       IN /\ fut' = [fut EXCEPT ![cb.r] = ReturnOutcome(@, wEntry = cb.r, cb.out)]
          /\ IF fut[cb.r] = "pending"
             THEN /\ resolver' = [resolver EXCEPT ![cb.r] = "loop"]
                  /\ doneLog' = Append(doneLog, cb.r)
             ELSE UNCHANGED <<resolver, doneLog>>
          /\ userH' = uh1
          /\ callbacks' = Tail(callbacks)
          /\ \E ub \in UbChoices :
               Put(Collect(Heap, Roots(userCtx, uh1, wEntry, wResult, Tail(callbacks)), "main", ub))
    /\ lastLookup' = NoLookup
    /\ UNCHANGED <<natCurrent, userCtx>>
    /\ UNCHANGED <<wpc, wEntry, wResult, reqKind, reqArg, outcome, execLog, mpc>>

\* Context.close after self._worker_thread.join() returned
ContextCloseJoined ==
    /\ ~crashed
    /\ mpc.op = "join"
    /\ wpc \in {"exited", "crashed"}
    /\ \E ub \in UbChoices :
         Put(ContextCloseTail(Heap, mpc.c, mpc.shutdown_ctx, mpc.busy, "main", ub))
    /\ mpc' = [op |-> "run"]
    /\ lastLookup' = NoLookup
    /\ UNCHANGED <<natCurrent, userCtx, userH>>
    /\ UNCHANGED <<wpc, wEntry, wResult, callbacks, reqKind, reqArg, fut, resolver,
                   outcome, execLog, doneLog>>

\* the state after ctx = Context.create(): one Context, referenced by the caller
InitOneCore ==
    /\ natCtx = [k \in CtxIds |-> IF k = 1 THEN "live" ELSE "free"]
    /\ natFile = [f \in FileIds |-> 0]
    /\ natCurrent = None
    /\ cw = [c \in CW |-> IF c = AsyncCtx
                           THEN [st |-> "live", smbobj |-> 1, key |-> 1,
                                 wq |-> FALSE, loop |-> None]
                           ELSE FreeCW]
    /\ hw = [h \in HW |-> FreeHW]
    /\ Context_instances = [k \in CtxKeys |-> IF k = 1 THEN AsyncCtx ELSE 0]
    /\ GenericFile_instances = [f \in FileIds |-> 0]
    /\ userCtx = {AsyncCtx}
    /\ userH = {}
    /\ closeLog = [h \in HW |-> <<>>]
    /\ freeOk = [c \in CW |-> 0]
    /\ freeAfter = [c \in CW |-> 0]
    /\ lastLookup = NoLookup
    /\ lastFinal = {}
    /\ lastFree = {}
    /\ crashed = FALSE
    /\ nativeThreads = {}
    /\ work_queue = <<>>
    /\ wpc = "none"
    /\ wEntry = NoEntry
    /\ wResult = None
    /\ callbacks = <<>>
    /\ reqKind = <<>>
    /\ reqArg = <<>>
    /\ fut = <<>>
    /\ resolver = <<>>
    /\ outcome = <<>>
    /\ execLog = <<>>
    /\ doneLog = <<>>
    /\ mpc = [op |-> "run"]

InitOne == InitOneCore /\ ExtInit


NextCtx ==
    \/ ContextCreate
    \/ \E c \in CW : ContextSetCurrent(c)
    \/ \E c \in CW : DropContext(c)
    \/ \E c \in CW : ContextClose(c)

\* synchronous mode, the Context registry: Contexts are created, made current,
\* closed and dropped
SpecCtx == Init /\ [][NextCtx]_vars

NextFile ==
    \/ \E c \in CW, class \in {"File", "Directory"} : ContextOpen(c, class, GoodPath)
    \/ \E h \in HW : HandleClose(h)
    \/ \E h \in HW : DropHandle(h)
    \/ \E c \in CW : DropContext(c)
    \/ \E c \in CW : ContextClose(c)

\* synchronous mode, the handle registry: one Context and the files and
\* directories opened on it
SpecFile == InitOne /\ [][NextFile]_vars

NextSync ==
    \/ \E class \in {"File", "Directory"}, fname \in PathChoices :
         ContextOpen(AsyncCtx, class, fname)
    \/ \E names \in NameLists : ContextOp(AsyncCtx, names)
    \/ \E h \in HW : HandleClose(h)
    \/ \E h \in HW : DropHandle(h)
    \/ ContextClose(AsyncCtx)

\* synchronous mode, argument validation: one Context on which files and
\* directories are opened with valid and invalid path arguments
SpecSync == InitOne /\ [][NextSync]_vars

\* the consumer cancels the future of request r: fute.cancel(), or the
\* cancellation of the task awaiting it
FutureCancel(r) ==
    /\ CallerRuns
    /\ r \in 1..Len(fut)
    /\ fut[r] = "pending"
    /\ fut' = [fut EXCEPT ![r] = "cancelled"]
    /\ Put(Heap)
    /\ lastLookup' = NoLookup
    /\ UNCHANGED <<natCurrent, userCtx, userH>>
    /\ UNCHANGED <<wpc, wEntry, wResult, callbacks, reqKind, reqArg, resolver,
                   outcome, execLog, doneLog, mpc>>

\* the consumer lets go of the future of request r without awaiting it
FutureDrop(r) ==
    /\ CallerRuns
    /\ r \in 1..Len(fut)
    /\ fut[r] = "pending"
    /\ fut' = [fut EXCEPT ![r] = "dropped"]
    /\ Put(Heap)
    /\ lastLookup' = NoLookup
    /\ UNCHANGED <<natCurrent, userCtx, userH>>
    /\ UNCHANGED <<wpc, wEntry, wResult, callbacks, reqKind, reqArg, resolver,
                   outcome, execLog, doneLog, mpc>>

\* most requests made of a consumer that abandons some
MaxCancelReq == 2

\* a request of that consumer: a Context operation, or flush_async
CallAsyncCancel(kind) == Len(reqKind) < MaxCancelReq /\ CallAsync(kind, GoodPath)

NextCancel ==
    \/ EnableAsyncCallsOnce
    \/ \E kind \in {"op", "flush"} : CallAsyncCancel(kind)
    \/ WorkerStart
    \/ WorkerGet
    \/ WorkerReturn
    \/ LoopCallback
    \/ \E r \in 1..MaxCancelReq : FutureCancel(r)
    \/ \E r \in 1..MaxCancelReq : FutureDrop(r)

\* asynchronous mode with a consumer that abandons requests: one Context with
\* its worker thread, the caller's thread being the event loop's
SpecCancel == InitOne /\ [][NextCancel]_vars

NextAsync ==
    \/ EnableAsyncCallsOnce
    \/ \E kind \in ReqKinds : CallAsync(kind, GoodPath)
    \/ WorkerStart
    \/ WorkerGet
    \/ WorkerReturn
    \/ LoopCallback
    \/ \E c \in CW : ContextClose(c)
    \/ ContextCloseJoined
    \/ \E h \in HW : DropHandle(h)
    \/ \E c \in CW : DropContext(c)

\* asynchronous mode: one Context with its worker thread, the caller's thread
\* being the event loop's
SpecAsync == InitOne /\ [][NextAsync]_vars

NextArgs ==
    \/ EnableAsyncCallsOnce
    \/ \E arg \in PathChoices : CallAsync("open", arg)
    \/ WorkerStart
    \/ WorkerGet
    \/ WorkerReturn
    \/ LoopCallback
    \/ \E h \in HW : DropHandle(h)

\* asynchronous mode, argument validation: open_async with valid and invalid
\* path arguments
SpecArgs == InitOne /\ [][NextArgs]_vars

NextEnable ==
    \/ \E loop \in Loops : EnableAsyncCalls(loop)
    \/ CallAsync("op", GoodPath)
    \/ WorkerStart
    \/ WorkerGet
    \/ WorkerReturn
    \/ LoopCallback
    \/ ContextClose(AsyncCtx)
    \/ ContextCloseJoined

\* one Context whose caller calls enable_async_calls any number of times, with
\* either loop, before and after close
SpecEnable == InitOne /\ [][NextEnable]_vars

\* requests outstanding when a Context is closed
MaxLifeReq == 1

\* a request made by the caller of the shutdown specification
CallAsyncLife == Len(reqKind) < MaxLifeReq /\ CallAsync("op", GoodPath)

NextLife ==
    \/ EnableAsyncCalls(MainLoop)
    \/ CallAsyncLife
    \/ WorkerStart
    \/ WorkerGet
    \/ WorkerReturn
    \/ LoopCallback
    \/ ContextClose(AsyncCtx)
    \/ ContextCloseJoined

\* the threads get to run: the worker thread is scheduled whenever it can take
\* a step, native calls return, and a join returns once the thread has ended
FairLife ==
    /\ WF_vars(WorkerStart)
    /\ WF_vars(WorkerGet)
    /\ WF_vars(WorkerReturn)
    /\ WF_vars(ContextCloseJoined)

\* the life of one Context's worker thread, from before enable_async_calls to
\* after close
SpecLife == InitOne /\ [][NextLife]_vars /\ FairLife

\* ------------------------------------------------------------ file transfer

\* largest file
MaxSize == 3
\* largest number of bytes the native layer hands over in one short read
MaxChunk == 2
\* largest read_at_once the caller sets
MaxReadAtOnce == 2
\* most native reads of one readall that the native layer cuts short by choice
MaxShortReads == 2

\* the File of the file-transfer specification, and its native file
IoHandle == 1
IoFile == 1
\* byte values of file contents
IoBytes == {7, 9}

Min2(a, b) == IF a <= b THEN a ELSE b

Zeros(n) == [i \in 1..n |-> 0]

\* the fake native read: of the n bytes asked for it hands over at most `short`
\* of those that remain, none at the end of the file; -1 when it fails
NativeRead(data, pos, n, short, fail) ==
    IF fail THEN 0 - 1 ELSE Min2(n, Min2(Len(data) - pos, short))

\* the bytes a native read of k bytes at position pos puts into buf at offset
Fill(buf, offset, data, pos, k) ==
    [i \in 1..Len(buf) |-> IF offset < i /\ i <= offset + k
                            THEN data[pos + (i - offset)]
                            ELSE buf[i]]

\* the state of File.readall's loop: native position, to_read, buf, offset,
\* the short-read sizes the native layer will choose, the number of the native
\* call that fails (0: none), native calls made, the last native return value,
\* whether a call was given more room than buf has, the exception raised
LoopState(pos, to_read, buf, offset, shorts, failAt) ==
    [pos |-> pos, to_read |-> to_read, buf |-> buf, offset |-> offset,
     shorts |-> shorts, failAt |-> failAt, calls |-> 0, lastn |-> 0,
     overflow |-> FALSE, err |-> "none", small |-> FALSE, misfit |-> FALSE,
     badExt |-> FALSE]

RECURSIVE ReadallStopsAtShortRead(_, _, _)
ReadallStopsAtShortRead(data, rao, L) ==
    IF L.to_read = 0 THEN L
    ELSE LET short == IF L.shorts = <<>> THEN MaxChunk ELSE Head(L.shorts)
             nrbytes == NativeRead(data, L.pos, L.to_read, short, L.calls + 1 = L.failAt)
             L1 == [L EXCEPT !.calls = @ + 1, !.lastn = nrbytes,
                             !.shorts = IF @ = <<>> THEN @ ELSE Tail(@),
                             !.overflow = @ \/ L.offset + L.to_read > Len(L.buf)]
         IN IF nrbytes < 0 THEN [L1 EXCEPT !.err = "SMBError"]
            ELSE IF nrbytes = 0 THEN L1
            ELSE LET to_read == L.to_read - nrbytes
                     add_to_read == (((rao * 3) \div 2 - to_read) \div rao) * rao
                     L2 == [L1 EXCEPT !.buf = Fill(L.buf, L.offset, data, L.pos, nrbytes)
                                             \o (IF add_to_read > 0 THEN Zeros(add_to_read) ELSE <<>>),
                                      !.pos = @ + nrbytes,
                                      !.offset = @ + nrbytes,
                                      !.to_read = IF add_to_read > 0
                                                  THEN to_read + add_to_read ELSE to_read]
                 IN IF nrbytes < L.to_read THEN L2
                    ELSE ReadallStopsAtShortRead(data, rao, L2)

RECURSIVE ReadallNeverExtends(_, _, _)
ReadallNeverExtends(data, rao, L) ==
    IF L.to_read = 0 THEN L
    ELSE LET short == IF L.shorts = <<>> THEN MaxChunk ELSE Head(L.shorts)
             nrbytes == NativeRead(data, L.pos, L.to_read, short, L.calls + 1 = L.failAt)
             L1 == [L EXCEPT !.calls = @ + 1, !.lastn = nrbytes,
                             !.shorts = IF @ = <<>> THEN @ ELSE Tail(@),
                             !.overflow = @ \/ L.offset + L.to_read > Len(L.buf),
                             !.small = @ \/ L.to_read <= rao \div 2,
                             !.misfit = @ \/ L.offset + L.to_read # Len(L.buf)]
         IN IF nrbytes < 0 THEN [L1 EXCEPT !.err = "SMBError"]
            ELSE IF nrbytes = 0 THEN L1
            ELSE ReadallNeverExtends(data, rao,
                        [L1 EXCEPT !.buf = Fill(L.buf, L.offset, data, L.pos, nrbytes),
                                   !.pos = @ + nrbytes,
                                   !.offset = @ + nrbytes,
                                   !.to_read = L.to_read - nrbytes])

\* File.readall, the while loop.  small, misfit, badExt record whether a
\* native read was asked for read_at_once // 2 bytes or fewer, whether offset +
\* to_read differed from the buffer's length at a native read, and whether the
\* buffer was extended by something other than a multiple of read_at_once.
RECURSIVE ReadallLoop(_, _, _)
ReadallLoop(data, rao, L) ==
    IF L.to_read = 0 THEN L
    ELSE LET short == IF L.shorts = <<>> THEN MaxChunk ELSE Head(L.shorts)
             nrbytes == NativeRead(data, L.pos, L.to_read, short, L.calls + 1 = L.failAt)
             L1 == [L EXCEPT !.calls = @ + 1, !.lastn = nrbytes,
                             !.shorts = IF @ = <<>> THEN @ ELSE Tail(@),
                             !.overflow = @ \/ L.offset + L.to_read > Len(L.buf),
                             !.small = @ \/ L.to_read <= rao \div 2,
                             !.misfit = @ \/ L.offset + L.to_read # Len(L.buf)]
         IN IF nrbytes < 0 THEN [L1 EXCEPT !.err = "SMBError"]
            ELSE IF nrbytes = 0 THEN L1
            ELSE LET to_read == L.to_read - nrbytes
                     add_to_read == (((rao * 3) \div 2 - to_read) \div rao) * rao
                 IN ReadallLoop(data, rao,
                        [L1 EXCEPT !.buf = Fill(L.buf, L.offset, data, L.pos, nrbytes)
                                           \o (IF add_to_read > 0 THEN Zeros(add_to_read) ELSE <<>>),
                                   !.pos = @ + nrbytes,
                                   !.offset = @ + nrbytes,
                                   !.to_read = IF add_to_read > 0
                                               THEN to_read + add_to_read ELSE to_read,
                                   !.badExt = @ \/ (add_to_read > 0 /\ add_to_read % rao # 0)])

\* a File method may run: the caller holds the wrapper
FileOpRuns(h) ==
    /\ UNCHANGED <<notifyVars, dirVars, authVars, fbVars, xaVars, enVars>>
    /\ CallerRuns
    /\ h \in userH
    /\ hw[h].st = "live"
    /\ hw[h].class = "File"

\* A File method called on a closed wrapper: no method looks at _smbobj, so the
\* native function is called with a NULL file.  The library is outside the
\* repository: it either fails the call or the process dies.
FileOpOnClosed(op, req) ==
    \E ub \in {"crash", "err"} :
        /\ PutHeap([Heap EXCEPT !.nt = NativeEnter("main"), !.crashed = (ub = "crash")])
        /\ lastOp' = OpRecord(op, TRUE, 1, TRUE, IF ub = "crash" THEN "none" ELSE "SMBError",
                              <<>>, 0, <<>>, req, 0 - 1, FALSE)
        /\ UNCHANGED <<ioData, ioPos, read_at_once>>

\* File.readall() (also File.read() without a count)
FileReadall(h) ==
    /\ FileOpRuns(h)
    /\ h = IoHandle
    /\ IF hw[h].smbobj = None
       THEN FileOpOnClosed("readall", 0)
       ELSE \E shorts \in SeqsUpTo(1..MaxChunk, MaxShortReads), failAt \in 0..2 :
              \E L \in {ReadallLoop(ioData, read_at_once,
                                    LoopState(ioPos, read_at_once, Zeros(read_at_once), 0,
                                              shorts, failAt))} :
              LET ret == IF L.err = "none" THEN SubSeq(L.buf, 1, L.offset) ELSE <<>>
              IN /\ PutHeap([Heap EXCEPT !.nt = NativeEnter("main")])
                 /\ ioPos' = L.pos
                 /\ lastOp' = [OpRecord("readall", FALSE, L.calls, L.lastn < 0, L.err, ret,
                                        Len(ret), SubSeq(ioData, ioPos + 1, Len(ioData)), 0,
                                        L.lastn, L.overflow)
                               EXCEPT !.small = L.small, !.misfit = L.misfit,
                                      !.badExt = L.badExt]
                 /\ UNCHANGED <<ioData, read_at_once>>
    /\ lastLookup' = NoLookup
    /\ UNCHANGED <<natCurrent, userCtx, userH>>
    /\ UNCHANGED asyncVars

\* File.read(to_read) with a count: one native read
FileRead(h, to_read) ==
    /\ FileOpRuns(h)
    /\ h = IoHandle
    /\ IF hw[h].smbobj = None
       THEN FileOpOnClosed("read", to_read)
       ELSE \E short \in 1..MaxChunk, fail \in BOOLEAN :
              LET nrbytes == NativeRead(ioData, ioPos, to_read, short, fail)
                  buf == Fill(Zeros(to_read), 0, ioData, ioPos, IF nrbytes < 0 THEN 0 ELSE nrbytes)
                  ret == IF nrbytes < 0 THEN <<>> ELSE SubSeq(buf, 1, nrbytes)
              IN /\ PutHeap([Heap EXCEPT !.nt = NativeEnter("main")])
                 /\ ioPos' = IF nrbytes < 0 THEN ioPos ELSE ioPos + nrbytes
                 /\ lastOp' = OpRecord("read", FALSE, 1, nrbytes < 0,
                                       IF nrbytes < 0 THEN "SMBError" ELSE "none", ret,
                                       Len(ret), SubSeq(ioData, ioPos + 1, Len(ioData)),
                                       to_read, nrbytes, FALSE)
                 /\ UNCHANGED <<ioData, read_at_once>>
    /\ lastLookup' = NoLookup
    /\ UNCHANGED <<natCurrent, userCtx, userH>>
    /\ UNCHANGED asyncVars

\* the data arguments of write: bytes, or an object that is no byte buffer
WriteArgs == [type : {"bytes"}, val : SeqsUpTo(IoBytes, MaxChunk)] \cup {OtherArg}

\* the file after the native layer accepted the first k bytes of val at pos
Written(data, pos, val, k) ==
    [i \in 1..(IF pos + k > Len(data) THEN pos + k ELSE Len(data)) |->
        IF pos < i /\ i <= pos + k THEN val[i - pos] ELSE data[i]]

FileWriteRetriesRemainder(data, accepted) ==
    [err |-> IF accepted <= 0 THEN "SMBError" ELSE "none",
     calls |-> IF 0 < accepted /\ accepted < Len(data.val) THEN 2 ELSE 1,
     nrbytes |-> IF accepted <= 0 THEN accepted ELSE Len(data.val),
     ret |-> IF accepted <= 0 THEN 0 ELSE Len(data.val)]

\* File.write(data) after the type check: one native write that accepts
\* `accepted` bytes (-1: it fails); the exception, the native calls made, the
\* bytes that went to the file and the value returned
FileWriteBody(data, accepted) ==
    [err |-> IF accepted <= 0 THEN "SMBError" ELSE "none",
     calls |-> 1,
     nrbytes |-> accepted,
     ret |-> IF accepted <= 0 THEN 0 ELSE accepted]

\* File.write(data)
FileWrite(h, data) ==
    /\ FileOpRuns(h)
    /\ h = IoHandle
    /\ IF data.type # "bytes"
       THEN /\ PutHeap(Heap)
            /\ lastOp' = OpRecord("write", hw[h].smbobj = None, 0, FALSE, "TypeError",
                                  <<>>, 0, <<>>, 0, 0, FALSE)
            /\ UNCHANGED <<ioData, ioPos, read_at_once>>
       ELSE IF hw[h].smbobj = None
       THEN FileOpOnClosed("write", Len(data.val))
       ELSE \E accepted \in (0 - 1)..Len(data.val) :
              LET w == FileWriteBody(data, accepted)
                  k == IF w.nrbytes < 0 THEN 0 ELSE w.nrbytes
              IN /\ ioPos + Len(data.val) <= MaxSize
                 /\ PutHeap([Heap EXCEPT !.nt = NativeEnter("main")])
                 /\ ioData' = Written(ioData, ioPos, data.val, k)
                 /\ ioPos' = ioPos + k
                 /\ lastOp' = OpRecord("write", FALSE, w.calls, w.nrbytes < 0, w.err, <<>>,
                                       w.ret, <<>>, Len(data.val), accepted, FALSE)
                 /\ UNCHANGED read_at_once
    /\ lastLookup' = NoLookup
    /\ UNCHANGED <<natCurrent, userCtx, userH>>
    /\ UNCHANGED asyncVars

\* File.lseek(offset, whence) with whence asking for an absolute offset
FileLseek(h, offset) ==
    /\ FileOpRuns(h)
    /\ h = IoHandle
    /\ offset <= Len(ioData)
    /\ IF hw[h].smbobj = None
       THEN FileOpOnClosed("lseek", offset)
       ELSE /\ PutHeap([Heap EXCEPT !.nt = NativeEnter("main")])
            /\ ioPos' = offset
            /\ lastOp' = OpRecord("lseek", FALSE, 1, FALSE, "none", <<>>, offset, <<>>,
                                  offset, offset, FALSE)
            /\ UNCHANGED <<ioData, read_at_once>>
    /\ lastLookup' = NoLookup
    /\ UNCHANGED <<natCurrent, userCtx, userH>>
    /\ UNCHANGED asyncVars

\* the state after f = ctx.open(...) on a file of any content and
\* f.read_at_once = n
InitIO ==
    /\ natCtx = [k \in CtxIds |-> IF k = 1 THEN "live" ELSE "free"]
    /\ natFile = [f \in FileIds |-> IF f = IoFile THEN 1 ELSE 0]
    /\ natCurrent = None
    /\ cw = [c \in CW |-> IF c = AsyncCtx
                           THEN [st |-> "live", smbobj |-> 1, key |-> 1,
                                 wq |-> FALSE, loop |-> None]
                           ELSE FreeCW]
    /\ hw = [h \in HW |-> IF h = IoHandle
                           THEN [st |-> "live", smbobj |-> IoFile, key |-> IoFile,
                                 parent |-> AsyncCtx, closename |-> "FunctionClose",
                                 class |-> "File"]
                           ELSE FreeHW]
    /\ Context_instances = [k \in CtxKeys |-> IF k = 1 THEN AsyncCtx ELSE 0]
    /\ GenericFile_instances = [f \in FileIds |-> IF f = IoFile THEN IoHandle ELSE 0]
    /\ userCtx = {AsyncCtx}
    /\ userH = {IoHandle}
    /\ closeLog = [h \in HW |-> <<>>]
    /\ freeOk = [c \in CW |-> 0]
    /\ freeAfter = [c \in CW |-> 0]
    /\ lastLookup = NoLookup
    /\ lastFinal = {}
    /\ lastFree = {}
    /\ crashed = FALSE
    /\ nativeThreads = {}
    /\ work_queue = <<>>
    /\ wpc = "none"
    /\ wEntry = NoEntry
    /\ wResult = None
    /\ callbacks = <<>>
    /\ reqKind = <<>>
    /\ reqArg = <<>>
    /\ fut = <<>>
    /\ resolver = <<>>
    /\ outcome = <<>>
    /\ execLog = <<>>
    /\ doneLog = <<>>
    /\ mpc = [op |-> "run"]
    /\ ioData \in SeqsUpTo(IoBytes, MaxSize)
    /\ ioPos = 0
    /\ read_at_once \in 1..MaxReadAtOnce
    /\ lastOp = NoOp
    /\ NotifyIdle
    /\ DirIdle
    /\ AuthIdle
    /\ FbIdle
    /\ XaIdle
    /\ EnIdle

NextIO ==
    \/ \E h \in HW : FileReadall(h)
    \/ \E h \in HW, to_read \in 0..MaxSize : FileRead(h, to_read)
    \/ \E h \in HW, data \in WriteArgs : FileWrite(h, data)
    \/ \E h \in HW, offset \in 0..MaxSize : FileLseek(h, offset)
    \/ \E h \in HW : HandleClose(h)

\* synchronous mode, one open File: reads, writes, seeks and close
SpecIO == InitIO /\ [][NextIO]_vars

\* ------------------------------------------------------ notification stream

\* most events the library hands to one c_notifier invocation
MaxEvents == 2
\* most events the library reports in the life of a stream
MaxReported == 3
\* longest time, in clock ticks, without a delivered event
MaxTicks == 2
\* largest idle timeout, in clock ticks
MaxTimeout == 1
\* most items waiting in the loop's callbacks and in self.notifs together
MaxQueued == 2

\* what the action callback returns for an event: 0, another int, no int
ActionResults == {"zero", "nonzero", "bad"}

FirstNonZeroNever(hasAction, nr, results) == nr + 1

\* the first event whose action result is not 0; nr + 1 when there is none
FirstNonZero(hasAction, nr, results) ==
    IF hasAction /\ \E i \in 1..nr : results[i] # "zero"
    THEN CHOOSE i \in 1..nr : results[i] # "zero" /\ \A j \in 1..(i - 1) : results[j] = "zero"
    ELSE nr + 1

\* an item of self.notifs or of a posted callback: an event with the number
\* the native layer reported it under, None, the end-marker, or the outcome for
\* self.done_fute
NotifItem(kind, id) == [kind |-> kind, id |-> id]
EndMarker == NotifItem("end", 0)
TimeoutNone == NotifItem("None", 0)

\* the first n events of an invocation
Events(n) == [i \in 1..n |-> NotifItem("event", nReported + i)]

CNotifierIgnoresAsyncFor(nr, dt, results, garbage) ==
    LET now == nElapsed + dt
        k == FirstNonZero(nHasAction, nr, results)
        items == k - 1
        posts1 == IF items # 0 THEN <<Events(items)>> ELSE <<>>
        el1 == IF items # 0 THEN 0 ELSE now
        stopping1 == (k <= nr /\ results[k] = "nonzero") \/ nStopping
        timedOut == ~stopping1 /\ nTimeout # NoTimeout /\ el1 > nTimeout
    IN IF k <= nr /\ results[k] = "bad"
       THEN [raised |-> TRUE, posts |-> <<>>, elapsed |-> now, ret |-> garbage,
             sentNone |-> FALSE, sentEnd |-> FALSE, items |-> 0, uninit |-> FALSE]
       ELSE [raised |-> FALSE,
             posts |-> posts1 \o (IF timedOut THEN << <<TimeoutNone>> >> ELSE <<>>)
                              \o (IF stopping1 THEN << <<EndMarker>> >> ELSE <<>>),
             elapsed |-> IF timedOut THEN 0 ELSE el1,
             ret |-> IF stopping1 THEN 1 ELSE 0,
             sentNone |-> timedOut,
             sentEnd |-> stopping1,
             items |-> items, uninit |-> FALSE]

\* c_notifier(c_actions, nr_actions, _) of _run_notifications, dt ticks after
\* the previous clock reading: the callbacks it posts to the loop, the new
\* distance from self.last_call to `now`, and the value it returns.  An action
\* result that is no int raises inside the ctypes callback: nothing is posted
\* and the library receives whatever ctypes leaves as the return value.  While
\* __init__ has not yet assigned self.async_for and self.end_marker, reading
\* either raises AttributeError in the same way, after the events were posted.
CNotifier(nr, dt, results, garbage) ==
    LET now == nElapsed + dt
        k == FirstNonZero(nHasAction, nr, results)
        items == k - 1
        posts1 == IF items # 0 THEN <<Events(items)>> ELSE <<>>
        el1 == IF items # 0 THEN 0 ELSE now
        stopping1 == (k <= nr /\ results[k] = "nonzero") \/ nStopping
        timedOut == ~stopping1 /\ nTimeout # NoTimeout /\ el1 > nTimeout
        stopping2 == stopping1 \/ (timedOut /\ nAsyncFor)
    IN IF k <= nr /\ results[k] = "bad"
       THEN [raised |-> TRUE, posts |-> <<>>, elapsed |-> now, ret |-> garbage,
             sentNone |-> FALSE, sentEnd |-> FALSE, items |-> 0, uninit |-> FALSE]
       ELSE IF nCons = "constructing" /\ (timedOut \/ stopping1)
       THEN [raised |-> TRUE, posts |-> posts1, elapsed |-> el1, ret |-> garbage,
             sentNone |-> FALSE, sentEnd |-> FALSE, items |-> items, uninit |-> TRUE]
       ELSE [raised |-> FALSE,
             posts |-> posts1 \o (IF timedOut /\ ~nAsyncFor THEN << <<TimeoutNone>> >> ELSE <<>>)
                              \o (IF stopping2 THEN << <<EndMarker>> >> ELSE <<>>),
             elapsed |-> IF timedOut /\ ~nAsyncFor THEN 0 ELSE el1,
             ret |-> IF stopping2 THEN 1 ELSE 0,
             sentNone |-> timedOut /\ ~nAsyncFor,
             sentEnd |-> stopping2,
             items |-> items, uninit |-> FALSE]

\* items in a sequence of posted callbacks
RECURSIVE Items(_)
Items(posts) == IF posts = <<>> THEN 0 ELSE Len(Head(posts)) + Items(Tail(posts))

\* a step of the notification stream leaves the rest alone
NotifyOnly == UNCHANGED <<coreVars, ioVars, dirVars, authVars, fbVars, xaVars, enVars>>

\* the worker takes the notifier's request and enters the native notify call
NotifyStart ==
    /\ nPhase = "queued"
    /\ nPhase' = "running"
    /\ lastCb' = NoCb
    /\ UNCHANGED nReported
    /\ UNCHANGED <<nStopping, nAsyncFor, nTimeout, nHasAction, nElapsed, nSinceEvent,
                   nPosted, notifs, nFut, nEnds, nCons>>
    /\ NotifyOnly

\* the native notify call invokes c_notifier, with events or at a poll interval
NotifyCallback ==
    /\ nPhase = "running"
    /\ \E nr \in 0..MaxEvents, dt \in 0..MaxTicks, garbage \in {0, 1},
          results \in [1..MaxEvents -> ActionResults] :
         LET c == CNotifier(nr, dt, results, garbage)
             since == IF c.items # 0 THEN 0 ELSE nSinceEvent + dt
         IN /\ nSinceEvent + dt <= MaxTicks
            /\ nReported + nr <= MaxReported
            /\ nReported' = nReported + nr
            /\ nHasAction \/ \A i \in 1..MaxEvents : results[i] = "zero"
            /\ \A i \in (nr + 1)..MaxEvents : results[i] = "zero"
            /\ c.raised \/ garbage = 0
            /\ Items(nPosted) + Len(notifs) + Items(c.posts) <= MaxQueued
            /\ nPosted' = nPosted \o c.posts
            /\ nElapsed' = c.elapsed
            /\ nSinceEvent' = since
            /\ nPhase' = IF c.ret # 0 THEN "stopped" ELSE "running"
            /\ lastCb' = [CbRecord(TRUE, nr, nStopping, nSinceEvent, nSinceEvent + dt,
                                   c.raised, c.ret, c.sentNone, c.sentEnd)
                          EXCEPT !.uninit = c.uninit, !.items = c.items,
                                 !.stopAt = IF nHasAction /\ \E i \in 1..nr :
                                                   /\ results[i] = "nonzero"
                                                   /\ \A j \in 1..(i - 1) : results[j] = "zero"
                                            THEN CHOOSE i \in 1..nr :
                                                   /\ results[i] = "nonzero"
                                                   /\ \A j \in 1..(i - 1) : results[j] = "zero"
                                            ELSE 0]
    /\ UNCHANGED <<nStopping, nAsyncFor, nTimeout, nHasAction, notifs, nFut, nEnds, nCons>>
    /\ NotifyOnly

\* the native notify call returns, after the callback asked it to stop or
\* because it failed; _run_notifications raises SMBError on a nonzero result
\* and the worker posts the outcome for self.done_fute
NotifyReturn ==
    /\ nPhase \in {"running", "stopped"}
    /\ \E rc \in {0, 1} :
         /\ nPhase = "running" => rc # 0
         /\ nPosted' = Append(nPosted, <<NotifItem(IF rc = 0 THEN "done_ok" ELSE "done_err", 0)>>)
    /\ nPhase' = "done"
    /\ lastCb' = NoCb
    /\ UNCHANGED nReported
    /\ UNCHANGED <<nStopping, nAsyncFor, nTimeout, nHasAction, nElapsed, nSinceEvent,
                   notifs, nFut, nEnds, nCons>>
    /\ NotifyOnly

ReturnNotifLastFirst(q, items) ==
    q \o [i \in 1..Len(items) |-> items[Len(items) + 1 - i]]

\* return_notif(self, items): for item in items : self.notifs.put_nowait(item)
ReturnNotif(q, items) == q \o items

\* the loop runs the oldest posted callback: return_notif puts its items into
\* self.notifs; the worker's return_result / return_exception resolves
\* self.done_fute
NotifyLoop ==
    /\ nPosted # <<>>
    /\ LET b == Head(nPosted)
       IN IF b[1].kind \in {"done_ok", "done_err"}
          THEN /\ nFut' = IF b[1].kind = "done_ok" THEN "result" ELSE "exception"
               /\ UNCHANGED <<notifs, nEnds>>
          ELSE /\ notifs' = ReturnNotif(notifs, b)
               /\ nEnds' = nEnds + Cardinality({i \in 1..Len(b) : b[i] = EndMarker})
               /\ nFut' = nFut
    /\ nPosted' = Tail(nPosted)
    /\ lastCb' = NoCb
    /\ UNCHANGED nReported
    /\ UNCHANGED <<nPhase, nStopping, nAsyncFor, nTimeout, nHasAction, nElapsed,
                   nSinceEvent, nCons>>
    /\ NotifyOnly

\* AsyncNotifier.stop()
NotifyStop ==
    /\ nPhase # "none"
    /\ nCons # "constructing"
    /\ nStopping' = TRUE
    /\ lastCb' = NoCb
    /\ UNCHANGED nReported
    /\ UNCHANGED <<nPhase, nAsyncFor, nTimeout, nHasAction, nElapsed, nSinceEvent,
                   nPosted, notifs, nFut, nEnds, nCons>>
    /\ NotifyOnly

\* AsyncNotifier.__aiter__(): the consumer starts an async-for
NotifyAiter ==
    /\ nPhase # "none"
    /\ nCons = "none"
    /\ nAsyncFor' = TRUE
    /\ nCons' = "iterating"
    /\ lastCb' = NoCb
    /\ UNCHANGED nReported
    /\ UNCHANGED <<nPhase, nStopping, nTimeout, nHasAction, nElapsed, nSinceEvent,
                   nPosted, notifs, nFut, nEnds>>
    /\ NotifyOnly

\* AsyncNotifier.get() / the get of __anext__ completes with the oldest item;
\* in an async-for the end-marker makes __anext__ await self.done_fute
NotifyTake ==
    /\ nCons \in {"none", "iterating"}
    /\ notifs # <<>>
    /\ notifs' = Tail(notifs)
    /\ nCons' = IF nCons = "iterating" /\ Head(notifs) = EndMarker THEN "awaiting" ELSE nCons
    /\ lastCb' = NoCb
    /\ UNCHANGED nReported
    /\ UNCHANGED <<nPhase, nStopping, nAsyncFor, nTimeout, nHasAction, nElapsed,
                   nSinceEvent, nPosted, nFut, nEnds>>
    /\ NotifyOnly

\* __anext__ after await self.done_fute: StopAsyncIteration, or the worker's
\* exception
NotifyAnextEnds ==
    /\ nCons = "awaiting"
    /\ nFut # "pending"
    /\ nCons' = IF nFut = "result" THEN "ended" ELSE "failed"
    /\ lastCb' = NoCb
    /\ UNCHANGED nReported
    /\ UNCHANGED <<nPhase, nStopping, nAsyncFor, nTimeout, nHasAction, nElapsed,
                   nSinceEvent, nPosted, notifs, nFut, nEnds>>
    /\ NotifyOnly

\* the state after n = d.notify_async(recursive, filter, timeout, poll, action)
\* on a Directory of an async-enabled Context: the request is queued
InitNotify ==
    /\ InitOneCore
    /\ IoIdle
    /\ DirIdle
    /\ AuthIdle
    /\ FbIdle
    /\ XaIdle
    /\ EnIdle
    /\ nPhase = "queued"
    /\ nStopping = FALSE
    /\ nAsyncFor = FALSE
    /\ nTimeout \in {NoTimeout} \cup 0..MaxTimeout
    /\ nHasAction \in BOOLEAN
    /\ nElapsed = 0
    /\ nSinceEvent = 0
    /\ nPosted = <<>>
    /\ notifs = <<>>
    /\ nFut = "pending"
    /\ nEnds = 0
    /\ nCons = "none"
    /\ lastCb = NoCb
    /\ nReported = 0

\* AsyncNotifier.__init__ from the return of _call_async to its end:
\* self.async_for = False; self.end_marker = object()
NotifyInitRest ==
    /\ nCons = "constructing"
    /\ nCons' = "none"
    /\ nAsyncFor' = FALSE
    /\ lastCb' = NoCb
    /\ UNCHANGED nReported
    /\ UNCHANGED <<nPhase, nStopping, nTimeout, nHasAction, nElapsed, nSinceEvent,
                   nPosted, notifs, nFut, nEnds>>
    /\ NotifyOnly

\* the state inside AsyncNotifier.__init__ when _call_async has returned: the
\* request is queued, async_for and end_marker are not assigned yet
InitConstructing ==
    /\ InitOneCore
    /\ IoIdle
    /\ DirIdle
    /\ AuthIdle
    /\ FbIdle
    /\ XaIdle
    /\ EnIdle
    /\ nPhase = "queued"
    /\ nStopping = FALSE
    /\ nAsyncFor = FALSE
    /\ nTimeout \in {NoTimeout} \cup 0..MaxTimeout
    /\ nHasAction \in BOOLEAN
    /\ nElapsed = 0
    /\ nSinceEvent = 0
    /\ nPosted = <<>>
    /\ notifs = <<>>
    /\ nFut = "pending"
    /\ nEnds = 0
    /\ nCons = "constructing"
    /\ lastCb = NoCb
    /\ nReported = 0

NextNotify ==
    \/ NotifyStart
    \/ NotifyCallback
    \/ NotifyReturn
    \/ NotifyLoop
    \/ NotifyStop
    \/ NotifyAiter
    \/ NotifyTake
    \/ NotifyAnextEnds

\* one notification stream: the native notify call on the worker thread, the
\* loop, and the consumer
SpecNotify == InitNotify /\ [][NextNotify]_vars

\* ------------------------------------- the stream's request on the worker

\* most requests on the Context of a stream, the stream's own among them
MaxBeside == 2

\* requests made on the Context beside the stream's
CallAsyncBeside(kind) == Len(reqKind) < MaxBeside /\ CallAsync(kind, GoodPath)

\* Directory.notify_async(...): AsyncNotifier.__init__ sets the fields and
\* queues self._run_notifications through the Context's _call_async
NotifyAsync ==
    /\ CallerRuns
    /\ AsyncCtx \in userCtx
    /\ cw[AsyncCtx].loop # None
    /\ nPhase = "none"
    /\ Len(reqKind) < MaxBeside
    /\ PutHeap([Heap EXCEPT !.q = CallAsyncPut(@, Len(reqKind) + 1)])
    /\ reqKind' = Append(reqKind, "notify")
    /\ reqArg' = Append(reqArg, GoodPath)
    /\ fut' = Append(fut, "pending")
    /\ resolver' = Append(resolver, "none")
    /\ outcome' = Append(outcome, "none")
    /\ nPhase' = "queued"
    /\ nTimeout' \in {NoTimeout} \cup 0..MaxTimeout
    /\ nHasAction' \in BOOLEAN
    /\ lastLookup' = NoLookup
    /\ UNCHANGED <<natCurrent, userCtx, userH>>
    /\ UNCHANGED <<wpc, wEntry, wResult, callbacks, execLog, doneLog, mpc>>
    /\ UNCHANGED <<nStopping, nAsyncFor, nElapsed, nSinceEvent, nPosted, notifs, nFut,
                   nEnds, nCons, lastCb, nReported>>
    /\ UNCHANGED <<ioVars, dirVars, authVars, fbVars, xaVars, enVars>>

\* the frame of a step of the worker inside the stream's request
InNotifyRequest ==
    /\ PutHeap(Heap)
    /\ lastLookup' = NoLookup
    /\ lastCb' = NoCb
    /\ UNCHANGED <<natCurrent, userCtx, userH>>
    /\ UNCHANGED <<wEntry, wResult, callbacks, reqKind, reqArg, fut, resolver, execLog,
                   doneLog, mpc>>
    /\ UNCHANGED <<nStopping, nAsyncFor, nTimeout, nHasAction, nElapsed, nSinceEvent,
                   notifs, nFut, nEnds, nCons, nReported>>
    /\ UNCHANGED <<ioVars, dirVars, authVars, fbVars, xaVars, enVars>>

WorkerRunNotificationsDetached ==
    /\ ~crashed
    /\ wpc = "call"
    /\ reqKind[wEntry] = "notify"
    /\ nPhase = "queued"
    /\ nPhase' = "running"
    /\ wpc' = "get"
    /\ UNCHANGED <<nPosted, outcome>>
    /\ InNotifyRequest

\* entry.func(*entry.args) for the stream's entry: the worker enters
\* _run_notifications and with it the native notify call, inside which it
\* stays
WorkerRunNotifications ==
    /\ ~crashed
    /\ wpc = "call"
    /\ reqKind[wEntry] = "notify"
    /\ nPhase = "queued"
    /\ nPhase' = "running"
    /\ wpc' = wpc
    /\ UNCHANGED <<nPosted, outcome>>
    /\ InNotifyRequest

\* the native notify call returns, after the callback asked it to stop or
\* because it failed; _run_notifications returns or raises SMBError, the
\* worker posts the outcome and goes back to the queue
WorkerReturnNotify ==
    /\ ~crashed
    /\ wpc = "call"
    /\ reqKind[wEntry] = "notify"
    /\ nPhase \in {"running", "stopped"}
    /\ \E rc \in {0, 1} :
         /\ nPhase = "running" => rc # 0
         /\ nPosted' = Append(nPosted, <<NotifItem(IF rc = 0 THEN "done_ok" ELSE "done_err", 0)>>)
         /\ outcome' = [outcome EXCEPT ![wEntry] = IF rc = 0 THEN "ok" ELSE "fail"]
    /\ nPhase' = "done"
    /\ wpc' = "get"
    /\ InNotifyRequest

\* the call of any other entry returns or raises
WorkerReturnOther == wpc = "call" /\ reqKind[wEntry] # "notify" /\ WorkerReturn

\* the native notify call invokes c_notifier at a poll interval, with no
\* event to report
NotifyCallbackAtPoll == NotifyCallback /\ nReported' = nReported

NextBlocking ==
    \/ EnableAsyncCallsOnce
    \/ NotifyAsync
    \/ \E kind \in {"op", "flush"} : CallAsyncBeside(kind)
    \/ WorkerStart
    \/ WorkerGet
    \/ WorkerRunNotifications
    \/ WorkerReturnNotify
    \/ WorkerReturnOther
    \/ LoopCallback
    \/ NotifyCallbackAtPoll
    \/ NotifyStop
    \/ NotifyAiter

\* a notification stream and other requests on one Context with its worker
\* thread, on a directory in which nothing changes; what the stream posts
\* stays with the loop, the consumer's side being that of SpecNotify
SpecBlocking == InitOne /\ [][NextBlocking]_vars

NextConstructing ==
    \/ NotifyInitRest
    \/ NotifyStart
    \/ NotifyCallback
    \/ NotifyReturn
    \/ NotifyLoop
    \/ NotifyStop
    \/ NotifyAiter
    \/ NotifyTake
    \/ NotifyAnextEnds

\* one notification stream from inside its constructor: the worker thread can
\* take the request before the constructing thread has finished __init__
SpecConstructing == InitConstructing /\ [][NextConstructing]_vars

\* ---------------------------------------------------- directory enumeration

\* most entries of a directory
MaxEntries == 3
\* most entries one native getdents call puts into the scratch buffer
MaxFill == 2

\* entry names as the library stores them: ".", "..", "a", and e-acute in UTF-8
DotName == <<46>>
DotDotName == <<46, 46>>
DirNames == {DotName, DotDotName, <<97>>, <<195, 169>>}

\* bytes.decode(): UTF-8, one-byte and two-byte sequences; anything else is
\* a UnicodeDecodeError
RECURSIVE Utf8Valid(_)
Utf8Valid(bs) ==
    IF bs = <<>> THEN TRUE
    ELSE IF Head(bs) < 128 THEN Utf8Valid(Tail(bs))
    ELSE /\ Head(bs) \in 194..223
         /\ Len(bs) >= 2
         /\ bs[2] \in 128..191
         /\ Utf8Valid(Tail(Tail(bs)))

RECURSIVE Utf8Decode(_)
Utf8Decode(bs) ==
    IF bs = <<>> THEN <<>>
    ELSE IF Head(bs) < 128 THEN <<Head(bs)>> \o Utf8Decode(Tail(bs))
    ELSE <<(Head(bs) - 192) * 64 + (bs[2] - 128)>> \o Utf8Decode(Tail(Tail(bs)))

\* b[:endpos] for the first NUL of b, all of b when it has none
UpToNul(b) ==
    IF \E i \in 1..Len(b) : b[i] = 0
    THEN SubSeq(b, 1, (CHOOSE i \in 1..Len(b) : b[i] = 0 /\ \A j \in 1..(i - 1) : b[j] # 0) - 1)
    ELSE b

\* decode_bytes0(b, decode)
decode_bytes0(b, decode) ==
    IF decode
    THEN IF Utf8Valid(b)
         THEN [type |-> "str", val |-> Utf8Decode(b)]
         ELSE [type |-> "UnicodeDecodeError", val |-> <<>>]
    ELSE [type |-> "bytes", val |-> UpToNul(b)]

\* _decode_dirent(adr, decode_bytes): the name of the Dirent
DirentName(name, decode) == decode_bytes0(name, decode)

\* dirent.name not in (b".", b".."): a str is never equal to a bytes
YieldsDirent(name) ==
    name \notin {[type |-> "bytes", val |-> DotName], [type |-> "bytes", val |-> DotDotName]}

\* a step of the enumeration leaves the rest alone
DirOnly == UNCHANGED <<coreVars, ioVars, notifyVars, authVars, fbVars, xaVars, enVars>>

\* Directory.readdir(): the library hands out the entry at the cursor
DirReaddir ==
    /\ dPhase = "none"
    /\ dCursor < Len(dListing)
    /\ dCursor' = dCursor + 1
    /\ UNCHANGED <<dListing, decode_bytes, dPhase, dBuf, dOffset, dOut>>
    /\ DirOnly

\* the first next() of get_all_dents(): self.lseekdir(0), then the locals
GetAllDentsStart ==
    /\ dPhase = "none"
    /\ \E fail \in BOOLEAN :
         IF fail
         THEN dPhase' = "error" /\ UNCHANGED dCursor
         ELSE dPhase' = "running" /\ dCursor' = 0
    /\ dBuf' = <<>>
    /\ dOffset' = 0
    /\ dOut' = <<>>
    /\ UNCHANGED <<dListing, decode_bytes>>
    /\ DirOnly

\* the inner loop of get_all_dents with offset # nrbytes: one entry of the
\* buffer is decoded, and yielded unless its name is "." or ".."
GetAllDentsDecode ==
    /\ dPhase = "running"
    /\ dOffset # Len(dBuf)
    /\ LET name == DirentName(dBuf[dOffset + 1], decode_bytes)
       IN dOut' = IF YieldsDirent(name) THEN Append(dOut, name) ELSE dOut
    /\ dOffset' = dOffset + 1
    /\ UNCHANGED <<dListing, dCursor, decode_bytes, dPhase, dBuf>>
    /\ DirOnly

\* the outer loop of get_all_dents with offset = nrbytes: the native getdents
\* call puts the next k entries into the buffer; it returns 0 at the end of
\* the directory and a negative number when it fails
GetAllDentsFill ==
    /\ dPhase = "running"
    /\ dOffset = Len(dBuf)
    /\ \E fail \in BOOLEAN, k \in 0..MaxFill :
         /\ k <= Len(dListing) - dCursor
         /\ k = 0 <=> (fail \/ dCursor = Len(dListing))
         /\ IF fail
            THEN dPhase' = "error" /\ UNCHANGED <<dBuf, dOffset, dCursor>>
            ELSE IF k = 0
            THEN dPhase' = "done" /\ UNCHANGED <<dBuf, dOffset, dCursor>>
            ELSE /\ dBuf' = SubSeq(dListing, dCursor + 1, dCursor + k)
                 /\ dCursor' = dCursor + k
                 /\ dOffset' = 0
                 /\ UNCHANGED dPhase
    /\ UNCHANGED <<dListing, decode_bytes, dOut>>
    /\ DirOnly

\* an open Directory of any content, on a Context with either setting of
\* decode_bytes
InitDir ==
    /\ InitOneCore
    /\ IoIdle
    /\ NotifyIdle
    /\ AuthIdle
    /\ FbIdle
    /\ XaIdle
    /\ EnIdle
    /\ dListing \in SeqsUpTo(DirNames, MaxEntries)
    /\ dCursor = 0
    /\ decode_bytes \in BOOLEAN
    /\ dPhase = "none"
    /\ dBuf = <<>>
    /\ dOffset = 0
    /\ dOut = <<>>

NextDir ==
    \/ DirReaddir
    \/ GetAllDentsStart
    \/ GetAllDentsDecode
    \/ GetAllDentsFill

\* one enumeration of one directory
SpecDir == InitDir /\ [][NextDir]_vars

\* -------------------------------------------------------------- auth table

\* most entries of the auth table
MaxAuth == 3

\* the Python value None as a key or value component
NoneArg == [type |-> "None", val |-> <<>>]

\* names given as key components: "a" as str and as bytes, e-acute as str
KeyNames == {[type |-> "str", val |-> <<97>>], [type |-> "bytes", val |-> <<97>>],
             [type |-> "str", val |-> <<233>>]}
StrNames == {n \in KeyNames : n.type = "str"}

\* keys as the caller writes them: None, a name alone, or a 2-tuple of a
\* server (a name, None, or an object of another type) and a share
RawKeys ==
    {[form |-> "None", a |-> NoneArg, b |-> NoneArg]}
        \cup [form : {"single"}, a : KeyNames \ StrNames, b : {NoneArg}]
        \cup [form : {"pair"}, a : KeyNames \cup {NoneArg, OtherArg}, b : StrNames \cup {NoneArg}]

\* encode_str0(s)[:-1]
Encoded(s) ==
    LET r == encode_str0(s)
    IN [type |-> "bytes", val |-> SubSeq(r.val, 1, Len(r.val) - 1)]

IsStr(x) == x.type \in {"str", "bytes"}

\* SimpleAuthEntry.validate_key(key): err is "none" or "TypeError" (the names
\* here hold no NUL, so encode_str0 raises nothing), key the normalised 2-tuple
validate_key(key) ==
    IF key.form = "None"
    THEN [err |-> "none", key |-> <<NoneArg, NoneArg>>]
    ELSE IF key.form = "single"
    THEN [err |-> "none", key |-> <<Encoded(key.a), NoneArg>>]
    ELSE IF IsStr(key.a) /\ (key.b = NoneArg \/ IsStr(key.b))
    THEN [err |-> "none",
          key |-> <<Encoded(key.a), IF key.b # NoneArg THEN Encoded(key.b) ELSE NoneArg>>]
    ELSE IF <<key.a, key.b>> # <<NoneArg, NoneArg>>
    THEN [err |-> "TypeError", key |-> <<>>]
    ELSE [err |-> "none", key |-> <<NoneArg, NoneArg>>]

AllNone == <<NoneArg, NoneArg, NoneArg>>

\* (workgroup, username, password) values given to __setitem__
AuthValues ==
    {AllNone,
     <<NoneArg, [type |-> "str", val |-> <<97>>], NoneArg>>,
     <<NoneArg, [type |-> "str", val |-> <<233>>], [type |-> "bytes", val |-> <<97>>]>>}

\* the value as __setitem__ stores it
StoredValue(value) == [i \in 1..3 |-> IF value[i] # NoneArg THEN Encoded(value[i]) ELSE NoneArg]

GetItemWithoutServerFallback(entries, key) ==
    IF key \in DOMAIN entries THEN entries[key]
    ELSE IF key[1] # NoneArg /\ <<NoneArg, NoneArg>> \in DOMAIN entries
    THEN entries[<<NoneArg, NoneArg>>]
    ELSE AllNone

\* the branches of SimpleAuthEntry.__getitem__ on a validated key
GetItem(entries, key) ==
    IF key \in DOMAIN entries THEN entries[key]
    ELSE IF key[2] # NoneArg /\ <<key[1], NoneArg>> \in DOMAIN entries
    THEN entries[<<key[1], NoneArg>>]
    ELSE IF key[1] # NoneArg /\ <<NoneArg, NoneArg>> \in DOMAIN entries
    THEN entries[<<NoneArg, NoneArg>>]
    ELSE AllNone

\* a step on the auth table leaves the rest alone
AuthOnly == UNCHANGED <<coreVars, ioVars, notifyVars, dirVars, fbVars, xaVars, enVars>>

AuthSetItemUninstallsWhenEmpty(key, value) ==
    /\ LET k == validate_key(key)
       IN IF k.err # "none"
          THEN UNCHANGED <<auth_entries, function_auth_data>>
          ELSE IF value # AllNone
          THEN /\ Cardinality(DOMAIN auth_entries \cup {k.key}) <= MaxAuth
               /\ auth_entries' = [x \in DOMAIN auth_entries \cup {k.key} |->
                                      IF x = k.key THEN StoredValue(value) ELSE auth_entries[x]]
               /\ function_auth_data' = "do_auth"
          ELSE /\ auth_entries' = [x \in DOMAIN auth_entries \ {k.key} |-> auth_entries[x]]
               /\ function_auth_data' = IF DOMAIN auth_entries \subseteq {k.key}
                                        THEN "None" ELSE function_auth_data
    /\ lastGet' = NoGet
    /\ lastAuth' = NoAuth
    /\ AuthOnly

\* ctx.simple_auth[key] = value
AuthSetItem(key, value) ==
    /\ LET k == validate_key(key)
       IN IF k.err # "none"
          THEN UNCHANGED <<auth_entries, function_auth_data>>
          ELSE IF value # AllNone
          THEN /\ Cardinality(DOMAIN auth_entries \cup {k.key}) <= MaxAuth
               /\ auth_entries' = [x \in DOMAIN auth_entries \cup {k.key} |->
                                      IF x = k.key THEN StoredValue(value) ELSE auth_entries[x]]
               /\ function_auth_data' = "do_auth"
          ELSE /\ auth_entries' = [x \in DOMAIN auth_entries \ {k.key} |-> auth_entries[x]]
               /\ UNCHANGED function_auth_data
    /\ lastGet' = NoGet
    /\ lastAuth' = NoAuth
    /\ AuthOnly

\* del ctx.simple_auth[key]: KeyError when the key has no entry
AuthDelItem(key) ==
    /\ LET k == validate_key(key)
       IN IF k.err = "none" /\ k.key \in DOMAIN auth_entries
          THEN auth_entries' = [x \in DOMAIN auth_entries \ {k.key} |-> auth_entries[x]]
          ELSE UNCHANGED auth_entries
    /\ lastGet' = NoGet
    /\ lastAuth' = NoAuth
    /\ UNCHANGED function_auth_data
    /\ AuthOnly

\* ctx.simple_auth[key], also what do_auth does with the library's
\* (server, share)
AuthGetItem(key) ==
    /\ LET k == validate_key(key)
       IN lastGet' = IF k.err # "none"
                     THEN GetRecord(TRUE, key, k.err, <<>>)
                     ELSE GetRecord(TRUE, key, "none", GetItem(auth_entries, k.key))
    /\ lastAuth' = NoAuth
    /\ UNCHANGED <<auth_entries, function_auth_data>>
    /\ AuthOnly

\* ctx.function_auth_data = val, with val a function of the caller or None
SetFunctionAuthData(val) ==
    /\ function_auth_data' = val
    /\ lastGet' = NoGet
    /\ lastAuth' = NoAuth
    /\ UNCHANGED auth_entries
    /\ AuthOnly

\* a new Context with its empty auth table
InitAuth ==
    /\ InitOneCore
    /\ IoIdle
    /\ NotifyIdle
    /\ DirIdle
    /\ AuthIdle
    /\ FbIdle
    /\ XaIdle
    /\ EnIdle

NextAuth ==
    \/ \E key \in RawKeys, value \in AuthValues : AuthSetItem(key, value)
    \/ \E key \in RawKeys : AuthDelItem(key)
    \/ \E key \in RawKeys : AuthGetItem(key)

\* the auth table of one Context
SpecAuth == InitAuth /\ [][NextAuth]_vars

\* ------------------------------------------------------- credential buffer

\* largest capacity of an FBytes
MaxCap == 3

\* values given to FBytes.value: the string arguments, and a POINTER(c_char)
\* at a buffer of the library
FbArgs == Args \cup [type : {"pointer"}, val : SeqsUpTo(ByteVals, MaxLen)]

\* the value setter up to the checks: err is "none" or "TypeError", val the
\* bytes (bytearray and array.array of bytes are taken as bytes)
FbBytes(val) ==
    IF val.type = "bytes" THEN [err |-> "none", val |-> val.val]
    ELSE IF val.type = "str" THEN [err |-> "none", val |-> Utf8(val.val)]
    ELSE IF val.type = "pointer" THEN [err |-> "none", val |-> UpToNul(val.val)]
    ELSE [err |-> "TypeError", val |-> <<>>]

FbSetterAllowsFullCapacity(val, max, prev) ==
    LET b == FbBytes(val)
    IN IF b.err # "none" THEN [err |-> b.err, val |-> prev]
       ELSE IF \E i \in 1..Len(b.val) : b.val[i] = 0 THEN [err |-> "ValueError", val |-> prev]
       ELSE IF Len(b.val) > max THEN [err |-> "ValueError", val |-> prev]
       ELSE [err |-> "none", val |-> b.val \o <<0>>]

\* FBytes.value = val on an FBytes of capacity max holding prev: the
\* exception raised and self._val afterwards
FbSetter(val, max, prev) ==
    LET b == FbBytes(val)
    IN IF b.err # "none" THEN [err |-> b.err, val |-> prev]
       ELSE IF \E i \in 1..Len(b.val) : b.val[i] = 0 THEN [err |-> "ValueError", val |-> prev]
       ELSE IF Len(b.val) >= max THEN [err |-> "ValueError", val |-> prev]
       ELSE [err |-> "none", val |-> b.val \o <<0>>]

\* a step on the FBytes leaves the rest alone
FbOnly == UNCHANGED <<coreVars, ioVars, notifyVars, dirVars, authVars, xaVars, enVars>>

\* FBytes(init, max): no object comes into being when the setter raises
FBytesInit(init, max) ==
    /\ fbMax = None
    /\ LET r == FbSetter(init, max, <<>>)
       IN /\ fbMax' = IF r.err = "none" THEN max ELSE None
          /\ fbVal' = r.val
          /\ lastAssign' = AssignRecord(TRUE, init, r.err, <<>>)
    /\ FbOnly

\* f.value = val
FBytesAssign(val) ==
    /\ fbMax # None
    /\ LET r == FbSetter(val, fbMax, fbVal)
       IN /\ fbVal' = r.val
          /\ lastAssign' = AssignRecord(TRUE, val, r.err, fbVal)
    /\ UNCHANGED fbMax
    /\ FbOnly

\* f.store(dst, max): the bytes go to the library's buffer
FBytesStore ==
    /\ fbMax # None
    /\ lastAssign' = NoAssign
    /\ UNCHANGED <<fbMax, fbVal>>
    /\ FbOnly

InitFb ==
    /\ InitOneCore
    /\ IoIdle
    /\ NotifyIdle
    /\ DirIdle
    /\ AuthIdle
    /\ FbIdle
    /\ XaIdle
    /\ EnIdle

NextFb ==
    \/ \E init \in FbArgs, max \in 0..MaxCap : FBytesInit(init, max)
    \/ \E val \in FbArgs : FBytesAssign(val)
    \/ FBytesStore

\* one FBytes, from its construction on
SpecFb == InitFb /\ [][NextFb]_vars

\* ---------------------------------------------------------- auth callback

\* a buffer of the library: the value it pre-populated, its NUL, and
\* whatever bytes lie behind that up to the capacity
Buffer(val, cap) == [i \in 1..cap |-> IF i <= Len(val) THEN val[i] ELSE IF i = Len(val) + 1 THEN 0 ELSE 98]

\* capacities the library gives its three buffers
BufCaps == {2, MaxCap}

\* the buffers of one call: workgroup, username, password
BufTriples(cap) == [1..3 -> {Buffer(v, cap) : v \in {<<>>, <<98>>}}]

\* server and share names the library asks credentials for
AskedNames == {<<97>>, <<98>>}

\* entries of the table, with a workgroup and with a password of two bytes
DoAuthValues ==
    AuthValues \cup {<<[type |-> "bytes", val |-> <<97>>], NoneArg, [type |-> "str", val |-> <<233>>]>>}

\* the keys the entries sit under: (None, None), (a, None) and (a, a)
DoAuthKeys ==
    {[form |-> "None", a |-> NoneArg, b |-> NoneArg],
     [form |-> "pair", a |-> [type |-> "bytes", val |-> <<97>>], b |-> NoneArg],
     [form |-> "pair", a |-> [type |-> "bytes", val |-> <<97>>], b |-> [type |-> "str", val |-> <<97>>]]}

\* FBytes.store(dst, max): len(self._val) bytes, the NUL among them, go to dst
Store(buf, val) == [i \in 1..Len(buf) |-> IF i <= Len(val) THEN val[i] ELSE buf[i]]

AssignOneClearsUnset(use, cap, prev) ==
    IF use = NoneArg THEN [err |-> "none", val |-> <<0>>] ELSE FbSetter(use, cap, prev)

\* one component of do_auth: `if use != None : fbytes.value = use`
AssignOne(use, cap, prev) ==
    IF use = NoneArg THEN [err |-> "none", val |-> prev] ELSE FbSetter(use, cap, prev)

RECURSIVE AssignAll(_, _, _, _)
\* the three assignments of do_auth from component i on: vals are the
\* FBytes._val, err the first exception of a setter, which ends do_auth
AssignAll(use, vals, caps, i) ==
    IF i > 3 THEN [err |-> "none", vals |-> vals]
    ELSE LET r == AssignOne(use[i], caps[i], vals[i])
         IN IF r.err # "none" THEN [err |-> r.err, vals |-> vals]
            ELSE AssignAll(use, [vals EXCEPT ![i] = r.val], caps, i + 1)

\* SimpleAuthEntry.do_auth on the three FBytes: the entry for
\* (server, share), then one assignment per component that is not None
do_auth(entries, server, share, vals, caps) ==
    LET k == validate_key([form |-> "pair", a |-> [type |-> "bytes", val |-> server],
                           b |-> [type |-> "bytes", val |-> share]])
        use == GetItem(entries, k.key)
        r == AssignAll(use, vals, caps, 1)
    IN [entry |-> use, err |-> r.err, vals |-> r.vals]

\* wrap_auth_data_fn as the library calls it: an FBytes on each buffer, the
\* hook, then the three stores; an exception of the hook leaves the callback
\* before any store
AuthCallback(server, share, bufs) ==
    /\ function_auth_data = "do_auth"
    /\ LET caps == [i \in 1..3 |-> Len(bufs[i])]
           made == [i \in 1..3 |->
                       FbSetter([type |-> "pointer", val |-> bufs[i]], caps[i], <<>>)]
           r == do_auth(auth_entries, server, share, [i \in 1..3 |-> made[i].val], caps)
       IN lastAuth' =
              IF \E i \in 1..3 : made[i].err # "none"
              THEN AuthRecord(TRUE, <<>>, "ValueError", bufs, bufs)
              ELSE IF r.err # "none"
              THEN AuthRecord(TRUE, r.entry, r.err, bufs, bufs)
              ELSE AuthRecord(TRUE, r.entry, "none", bufs,
                              [i \in 1..3 |-> Store(bufs[i], r.vals[i])])
    /\ lastGet' = NoGet
    /\ UNCHANGED <<auth_entries, function_auth_data>>
    /\ AuthOnly

NextDoAuth ==
    \/ \E key \in DoAuthKeys, value \in DoAuthValues : AuthSetItem(key, value)
    \/ \E server \in AskedNames, share \in AskedNames, cap \in BufCaps :
           \E bufs \in BufTriples(cap) : AuthCallback(server, share, bufs)

\* the auth table of one Context as the library consults it
SpecDoAuth == InitAuth /\ [][NextDoAuth]_vars

\* ------------------------------------------------------ extended attributes

\* the values the library hands out for an attribute: text, in UTF-8
XaValues == {Utf8(cs) : cs \in SeqsUpTo({97, 98, 233}, MaxLen)}

\* how a native getxattr call can fail: with ENODATA, or with another code
XaErrnos == {"ENODATA", "EIO"}

GetxattrNoneOnAnyError(val, decode, size, fetch) ==
    IF size # "ok"
    THEN XaRecord(TRUE, "none", 1, size, "none", TRUE, [type |-> "None", val |-> <<>>])
    ELSE IF fetch # "ok"
    THEN XaRecord(TRUE, "SMBError", 2, size, fetch, FALSE, [type |-> "None", val |-> <<>>])
    ELSE XaRecord(TRUE, "none", 2, size, fetch, FALSE, decode_bytes0(val, decode))

\* Context.getxattr after the arguments are encoded: the size query, then the
\* fetch into a buffer of that size
GetxattrBody(val, decode, size, fetch) ==
    IF size # "ok"
    THEN IF size = "ENODATA"
         THEN XaRecord(TRUE, "none", 1, size, "none", TRUE, [type |-> "None", val |-> <<>>])
         ELSE XaRecord(TRUE, "SMBError", 1, size, "none", FALSE, [type |-> "None", val |-> <<>>])
    ELSE IF fetch # "ok"
    THEN XaRecord(TRUE, "SMBError", 2, size, fetch, FALSE, [type |-> "None", val |-> <<>>])
    ELSE XaRecord(TRUE, "none", 2, size, fetch, FALSE, decode_bytes0(val, decode))

\* what ctx.getxattr(fname, name) does, given how the native calls go
GetxattrOutcome(fname, name, size, fetch) ==
    IF encode_str0(fname).err # "none"
    THEN XaRecord(TRUE, encode_str0(fname).err, 0, "none", "none", FALSE,
                  [type |-> "None", val |-> <<>>])
    ELSE IF encode_str0(name).err # "none"
    THEN XaRecord(TRUE, encode_str0(name).err, 0, "none", "none", FALSE,
                  [type |-> "None", val |-> <<>>])
    ELSE GetxattrBody(xaVal, decode_bytes, size, fetch)

\* ctx.getxattr(fname, name)
Getxattr(fname, name) ==
    /\ \E size \in {"ok"} \cup XaErrnos, fetch \in {"ok"} \cup XaErrnos :
         lastXa' = [GetxattrOutcome(fname, name, size, fetch) EXCEPT !.args = <<fname, name>>]
    /\ UNCHANGED xaVal
    /\ UNCHANGED <<coreVars, ioVars, notifyVars, dirVars, authVars, fbVars, enVars>>

\* ctx.getxattr_async(fname, name): the body evaluates the name `sellf`, which
\* is bound nowhere, so the call raises NameError before _call_async is
\* reached: no request is queued and no future is returned
GetxattrAsync(fname, name) ==
    /\ lastXa' = [XaRecord(TRUE, "NameError", 0, "none", "none", FALSE,
                           [type |-> "None", val |-> <<>>])
                    EXCEPT !.mode = "async", !.args = <<fname, name>>]
    /\ UNCHANGED xaVal
    /\ UNCHANGED <<coreVars, ioVars, notifyVars, dirVars, authVars, fbVars, enVars>>

\* a Context with either setting of decode_bytes, and an attribute of any value
InitXa ==
    /\ InitOneCore
    /\ IoIdle
    /\ NotifyIdle
    /\ AuthIdle
    /\ FbIdle
    /\ dListing = <<>>
    /\ dCursor = 0
    /\ decode_bytes \in BOOLEAN
    /\ dPhase = "none"
    /\ dBuf = <<>>
    /\ dOffset = 0
    /\ dOut = <<>>
    /\ xaVal \in XaValues
    /\ EnIdle
    /\ lastXa = NoXa

NextXa ==
    \/ \E fname \in PathChoices, name \in {GoodPath, OtherArg} : Getxattr(fname, name)
    \/ \E fname \in PathChoices, name \in {GoodPath, OtherArg} : GetxattrAsync(fname, name)

\* getxattr calls on one attribute
SpecXa == InitXa /\ [][NextXa]_vars

\* the keys of the hook specification: None, a server alone, and two pairs
HookKeys ==
    {k \in RawKeys : k.form # "pair" \/ (k.a.type = "str" /\ k.a.val = <<97>> /\ k.b # NoneArg)}

NextHook ==
    \/ \E val \in {"None", "user"} : SetFunctionAuthData(val)
    \/ \E key \in HookKeys, value \in AuthValues : AuthSetItem(key, value)
    \/ \E key \in HookKeys : AuthDelItem(key)

\* the auth table and the Context's auth callback
SpecHook == InitAuth /\ [][NextHook]_vars

\* ------------------------------------------------------------- properties

Range(q) == {q[i] : i \in 1..Len(q)}

\* C1: identity uniqueness.  Every live wrapper is the one its registry holds
\* under its native identifier, so no identifier ever has two live wrappers,
\* and a lookup that finds a wrapper registered returns that very wrapper.
C1_IdentityUniqueness ==
    /\ \A c \in CW : cw[c].st = "live" => Context_instances[cw[c].key] = c
    /\ \A h \in HW : hw[h].st = "live" => GenericFile_instances[hw[h].key] = h
    /\ \A k \in CtxKeys : Context_instances[k] # 0 =>
            cw[Context_instances[k]].st = "live" /\ cw[Context_instances[k]].key = k
    /\ \A f \in FileIds : GenericFile_instances[f] # 0 =>
            hw[GenericFile_instances[f]].st = "live" /\ hw[GenericFile_instances[f]].key = f
    /\ (lastLookup.reg \in {"ctx", "file"} /\ lastLookup.hit) => lastLookup.same

\* an open found a wrapper registered under the identifier the library
\* returned, and returned it
C1_Witness ==
    /\ lastLookup.reg = "file"
    /\ lastLookup.hit
    /\ lastLookup.same

\* C2: non-staleness.  A lookup never returns a wrapper that was closed before
\* the lookup.
C2_NeverStale ==
    lastLookup.reg \in {"ctx", "file"} => ~lastLookup.closed

\* C3: FIFO execution and FIFO resolution.  The worker invokes the requests in
\* submission order, none skipped; outcomes are posted and result slots are
\* resolved in that same order, each only after its own operation finished.
C3_Fifo ==
    /\ \A i \in 1..Len(execLog) : execLog[i] = i
    /\ \A i, j \in 1..Len(callbacks) : i < j => callbacks[i].r < callbacks[j].r
    /\ \A i \in 1..Len(callbacks) : \A r \in Range(doneLog) : r < callbacks[i].r
    /\ \A i, j \in 1..Len(doneLog) : i < j => doneLog[i] < doneLog[j]
    /\ \A r \in Range(doneLog) \cup {callbacks[i].r : i \in 1..Len(callbacks)} :
            /\ r \in Range(execLog)
            /\ (wpc = "call" => r # wEntry)

\* three requests were resolved, one with a result and one with an exception
C3_Witness ==
    /\ Len(doneLog) >= 3
    /\ \E r \in 1..Len(fut) : fut[r] = "result"
    /\ \E r \in 1..Len(fut) : fut[r] = "exception"

\* C4: single active thread.  At most one thread is inside a native call at a
\* time, finaliser-triggered closes and releases included.
C4_SingleActiveThread ==
    Cardinality(nativeThreads) <= 1

\* C5: a result slot is resolved at most once, and only by the event-loop
\* thread, never by the worker.
C5_ResolvedOnceOnLoop ==
    /\ \A r \in 1..Len(fut) :
            /\ resolver[r] \in {"none", "loop"}
            /\ (fut[r] # "pending") <=> (resolver[r] = "loop")
            /\ (fut[r] # "pending") <=> (r \in Range(doneLog))
    /\ \A i, j \in 1..Len(doneLog) : doneLog[i] = doneLog[j] => i = j

\* a slot was resolved with a result, on the loop thread, while a later
\* request's outcome was already posted
C5_Witness ==
    \E r \in 1..Len(fut) :
        /\ fut[r] = "result"
        /\ resolver[r] = "loop"
        /\ callbacks # <<>>

\* C6: every submitted request is consumed by the worker exactly once and its
\* result slot resolved: once the worker has exited after the end-of-work
\* entry, the loop has run every posted callback and the caller is not inside
\* close(), no submitted request is unconsumed or pending.
C6_EveryRequestResolved ==
    (wpc = "exited" /\ callbacks = <<>> /\ mpc.op = "run" /\ ~crashed) =>
        \A r \in 1..Len(reqKind) :
            /\ Cardinality({i \in 1..Len(execLog) : execLog[i] = r}) = 1
            /\ fut[r] # "pending"

\* C7: failure isolation.  A request whose operation failed has exactly its
\* own slot rejected (posted, then done), the worker survives it, and no slot
\* is rejected whose operation did not fail.
C7_FailureIsolated ==
    /\ \A r \in 1..Len(outcome) : outcome[r] = "fail" =>
            /\ wpc # "crashed"
            /\ \/ fut[r] = "exception"
               \/ \E i \in 1..Len(callbacks) :
                    callbacks[i].r = r /\ callbacks[i].out = "exception"
    /\ \A r \in 1..Len(fut) : fut[r] = "exception" => outcome[r] = "fail"

\* C8: the native context of an async-enabled Context is released only after
\* the worker has executed every request queued before the end-of-work entry
\* and has exited, whether close() or the finaliser releases it.
C8_ReleaseAfterDrain ==
    \A e \in lastFree : e.wq =>
        /\ wpc = "exited"
        /\ \A r \in 1..Len(reqKind) : r \in Range(execLog) \/ r \in Range(work_queue)

\* C9: a Context wrapper created for a native context releases it exactly
\* once in its life: never a release call after a successful one, exactly one
\* successful release once the wrapper is closed or finalised, none through a
\* wrapper created for no native context.
C9_ReleasedOnce ==
    /\ \A c \in CW : cw[c].st = "live" =>
            /\ freeAfter[c] = 0
            /\ freeOk[c] = IF cw[c].smbobj = None /\ cw[c].key # None THEN 1 ELSE 0
    /\ \A r \in lastFinal : r.class = "Context" =>
            /\ r.after = 0
            /\ r.calls = IF r.had THEN <<"free_context">> ELSE <<>>

\* a Context closed with close() was finalised later, with one release in all
C9_Witness ==
    \E r \in lastFinal :
        /\ r.class = "Context"
        /\ r.had
        /\ r.wasClosed
        /\ r.calls = <<"free_context">>

\* C10: handle close is idempotent.  The close function of the wrapper's kind
\* (close for a File, closedir for a Directory) is invoked exactly once when
\* the wrapper is closed or finalised; a later close invokes nothing.
C10_HandleCloseOnce ==
    /\ \A h \in HW : hw[h].st = "live" =>
            closeLog[h] = IF hw[h].smbobj = None
                          THEN <<CloseFunctionOf(hw[h].class)>>
                          ELSE <<>>
    /\ \A r \in lastFinal : r.class \in {"File", "Directory"} =>
            r.calls = <<CloseFunctionOf(r.class)>>

\* a Directory closed with close() was finalised later (its finaliser calls
\* close() again), with one closedir in all
C10_Witness ==
    \E r \in lastFinal :
        /\ r.class = "Directory"
        /\ r.wasClosed
        /\ r.calls = <<"FunctionClosedir">>

\* C11: in asynchronous mode a path argument of the wrong type or with an
\* embedded terminator is refused at the call site, before enqueueing: no
\* request with such an argument is ever on record (on the queue, with a
\* result slot).
C11_ValidatedBeforeEnqueue ==
    \A r \in 1..Len(reqKind) :
        reqKind[r] \in BoundKinds => encode_str0(reqArg[r]).err = "none"

\* C12: an operation on a handle after its close() fails with a logic error
\* and makes no native call.
C12_ClosedOpsRefused ==
    lastOp.closed => (lastOp.calls = 0 /\ lastOp.err = "LogicError")

\* C18: read-until-EOF.  readall on a file with S bytes remaining never gives
\* a native read more room than its buffer has, and unless a native read
\* fails it returns exactly those S bytes in order, however the native layer
\* splits them into short reads, having stopped at a native read of zero
\* length; at the end of the file it returns zero bytes without raising.
C18_ReadUntilEof ==
    (lastOp.op = "readall" /\ ~lastOp.closed) =>
        /\ ~lastOp.overflow
        /\ lastOp.failed <=> (lastOp.err = "SMBError")
        /\ ~lastOp.failed =>
              /\ lastOp.err = "none"
              /\ lastOp.ret = lastOp.rem
              /\ lastOp.lastn = 0
              /\ ioPos = Len(ioData)

\* a readall returned the three bytes that remained, handed over one at a
\* time, and stopped at the fourth native read
C18_Witness ==
    /\ lastOp.op = "readall"
    /\ Len(lastOp.rem) = 3
    /\ lastOp.calls = 4
    /\ lastOp.ret = lastOp.rem

\* C19: partial write.  write makes exactly one native write; when the native
\* layer accepts some but not all of the data, write returns the accepted
\* count, less than the length asked for, and raises nothing.
C19_PartialWrite ==
    (lastOp.op = "write" /\ ~lastOp.closed /\ lastOp.err # "TypeError") =>
        /\ lastOp.calls = 1
        /\ (0 < lastOp.lastn /\ lastOp.lastn < lastOp.req) =>
              /\ lastOp.err = "none"
              /\ lastOp.n = lastOp.lastn
              /\ lastOp.n < lastOp.req

\* a write of two bytes of which the native layer accepted one
C19_Witness ==
    /\ lastOp.op = "write"
    /\ lastOp.req = 2
    /\ lastOp.lastn = 1
    /\ lastOp.n = 1
    /\ lastOp.err = "none"

\* C13: when the result slot of a flush_async request is resolved, every
\* request submitted before it on the Context has been executed by the worker
\* and has had its own slot resolved.
C13_FlushAfterPrior ==
    \A r \in 1..Len(reqKind) :
        (reqKind[r] = "flush" /\ fut[r] # "pending") =>
            \A q \in 1..(r - 1) : q \in Range(execLog) /\ fut[q] # "pending"

\* a flush submitted after two Context operations has been resolved
C13_Witness ==
    /\ Len(reqKind) >= 3
    /\ reqKind[1] \in BoundKinds
    /\ reqKind[2] \in BoundKinds
    /\ reqKind[3] = "flush"
    /\ fut[3] # "pending"

\* C14: whenever the blocking notify call of a notification stream has ended
\* and its outcome has reached self.done_fute, an end-marker has been put into
\* the notification queue, whichever way the call ended (stop request, idle
\* timeout in an async-for, the action asking to stop, or failure of the
\* native call).
C14_EndMarkerAlwaysPushed == nFut # "pending" => nEnds >= 1

C16_StopAtNextInvocation ==
    (lastCb.called /\ lastCb.stopFlag) => (lastCb.ret = 1 /\ nPhase = "stopped")

\* the names of a listing other than "." and "..", in order
NamedEntries(listing) == SelectSeq(listing, LAMBDA n : n \notin {DotName, DotDotName})

\* C17: a finished get_all_dents has yielded exactly the named entries of the
\* directory, in native order, each once, and neither "." nor "..", with
\* either setting of decode_bytes and however getdents split the listing.
C17_NamedEntriesOnly ==
    dPhase = "done" =>
        /\ Len(dOut) = Len(NamedEntries(dListing))
        /\ \A i \in 1..Len(dOut) : dOut[i] = decode_bytes0(NamedEntries(dListing)[i], decode_bytes)

\* the entry of the table for a key, all-None when it has none
EntryOr(entries, key, other) == IF key \in DOMAIN entries THEN entries[key] ELSE other

\* C20: a lookup with the key (server, share) returns the entry for
\* (server, share) if the table has one, else the entry for (server, None) if
\* it has one, else the entry for (None, None) if it has one, else
\* (None, None, None).
C20_FallbackPrecedence ==
    (lastGet.called /\ lastGet.err = "none") =>
        LET k == validate_key(lastGet.key).key
        IN lastGet.result =
               EntryOr(auth_entries, k,
                   EntryOr(auth_entries, <<k[1], NoneArg>>,
                       EntryOr(auth_entries, <<NoneArg, NoneArg>>, AllNone)))

C20_Witness ==
    /\ lastGet.called /\ lastGet.err = "none"
    /\ LET k == validate_key(lastGet.key).key
       IN /\ k[1] # NoneArg /\ k[2] # NoneArg
          /\ k \notin DOMAIN auth_entries
          /\ <<k[1], NoneArg>> \in DOMAIN auth_entries
          /\ <<NoneArg, NoneArg>> \in DOMAIN auth_entries
          /\ auth_entries[<<k[1], NoneArg>>] # auth_entries[<<NoneArg, NoneArg>>]
          /\ lastGet.result = auth_entries[<<k[1], NoneArg>>]

\* C21: a step that puts an entry into the auth table, or changes one, leaves
\* the table's do_auth installed as the Context's auth callback, whatever was
\* installed before; a step that only takes entries out of the table leaves
\* an installed do_auth installed, also when the table becomes empty.
C21_HookInstalledAndKept ==
    [][/\ (\E k \in DOMAIN auth_entries' :
               k \notin DOMAIN auth_entries \/ auth_entries'[k] # auth_entries[k])
           => function_auth_data' = "do_auth"
       /\ (/\ DOMAIN auth_entries' # DOMAIN auth_entries
           /\ DOMAIN auth_entries' \subseteq DOMAIN auth_entries
           /\ function_auth_data = "do_auth")
           => function_auth_data' = "do_auth"]_vars

C21_Witness == auth_entries = <<>> /\ function_auth_data = "do_auth"

\* C22: an FBytes of capacity max holds at most max - 1 bytes, none of them
\* a NUL, before the trailing NUL; an assignment of a value of max bytes or
\* more, or of a value with a NUL in it, raises ValueError and leaves the held
\* value as it was.
C22_CapacityBounded ==
    /\ fbMax # None =>
           /\ Len(fbVal) >= 1 /\ Len(fbVal) - 1 <= fbMax - 1
           /\ fbVal[Len(fbVal)] = 0
           /\ \A i \in 1..(Len(fbVal) - 1) : fbVal[i] # 0
    /\ (fbMax # None /\ lastAssign.called /\ lastAssign.arg.type \in {"str", "bytes"}) =>
           LET b == IF lastAssign.arg.type = "str" THEN Utf8(lastAssign.arg.val)
                    ELSE lastAssign.arg.val
           IN (Len(b) >= fbMax \/ \E i \in 1..Len(b) : b[i] = 0) =>
                  (lastAssign.err = "ValueError" /\ fbVal = lastAssign.prev)

C22_Witness ==
    /\ fbMax = 2 /\ lastAssign.called /\ lastAssign.err = "ValueError"
    /\ lastAssign.arg = [type |-> "bytes", val |-> <<97, 97>>]
    /\ lastAssign.prev = <<97, 0>> /\ fbVal = <<97, 0>>

\* C27: a getxattr call whose arguments were accepted returns None, without
\* raising, exactly when the size query failed with ENODATA; it raises SMBError
\* when the size query failed with another code or when the fetch of the value
\* failed; otherwise it returns the value of the attribute.
C27_GetxattrOutcomes ==
    (lastXa.called /\ lastXa.calls > 0) =>
        /\ (lastXa.isNone /\ lastXa.err = "none") <=> lastXa.size = "ENODATA"
        /\ lastXa.err = "SMBError" <=>
               (lastXa.size \notin {"ok", "ENODATA"} \/ lastXa.fetch \notin {"ok", "none"})
        /\ (lastXa.size = "ok" /\ lastXa.fetch = "ok") =>
               /\ lastXa.err = "none" /\ ~lastXa.isNone
               /\ lastXa.result = decode_bytes0(xaVal, decode_bytes)

C27_Witness ==
    /\ lastXa.called /\ lastXa.size = "ENODATA" /\ lastXa.calls = 1
    /\ lastXa.isNone /\ lastXa.err = "none" /\ xaVal # <<>>

\* C23: in every reachable state, GenericFile.__new__ called with a native
\* identifier that has a registered wrapper, and with a parent Context or a
\* close-function name other than that wrapper's, fails its assertion: it
\* returns no wrapper and leaves the registry and the wrappers as they were;
\* an open that ended so handed the caller no wrapper.
C23_MismatchRefused ==
    /\ \A f \in FileIds, c \in CW, class \in {"File", "Directory"} :
           LET self == GenericFile_instances[f]
               r == HandleNew(Heap, f, c, class)
           IN (self # 0 /\ (hw[self].parent # c \/ hw[self].closename # CloseFunctionOf(class)))
                  => (r.err = "assert" /\ r.w = 0 /\ r.S = Heap)
    /\ lastLookup.reg = "assert" => (lastLookup.hit /\ ~lastLookup.same)

C23_Witness == lastLookup.reg = "assert" /\ lastLookup.hit

\* C24: a Context that has a work queue keeps that queue and its loop, and no
\* step starts a worker thread for it again; an enable_async_calls call on
\* such a Context starts nothing, and raises nothing exactly when it is given
\* the loop the Context already has.
C24_OneWorkerOneQueue ==
    /\ lastEnable.called /\ lastEnable.had =>
           /\ ~lastEnable.started
           /\ lastEnable.err = "none" <=> lastEnable.loop = lastEnable.prevLoop
    /\ cw[AsyncCtx].st = "live" /\ lastEnable.called =>
           /\ cw[AsyncCtx].wq
           /\ cw[AsyncCtx].loop = (IF lastEnable.had THEN lastEnable.prevLoop ELSE lastEnable.loop)
    /\ wpc = "none" <=> ~lastEnable.called

C24_Witness ==
    /\ lastEnable.called /\ lastEnable.had
    /\ lastEnable.loop # lastEnable.prevLoop
    /\ lastEnable.err = "AssertionError"
    /\ wpc = "exited"

C26_RejectedBeforeNative ==
    [][(lastLookup'.reg \in {"TypeError", "ValueError"}) =>
          /\ nativeThreads' = {}
          /\ ~crashed'
          /\ UNCHANGED <<natCtx, natFile, natCurrent, cw, hw, Context_instances,
                         GenericFile_instances, userCtx, userH, closeLog, work_queue>>]_vars

C26_Witness == lastLookup.reg = "ValueError" /\ userH # {} /\ cw[AsyncCtx].smbobj # None

\* C28: what getxattr_async gives for its arguments is what getxattr gives for
\* them, for some way the native calls can go: the same value or the same
\* exception.
C28_AsyncAsSync ==
    (lastXa.called /\ lastXa.mode = "async") =>
        \E size \in {"ok"} \cup XaErrnos, fetch \in {"ok"} \cup XaErrnos :
            LET sync == GetxattrOutcome(lastXa.args[1], lastXa.args[2], size, fetch)
            IN sync.err = lastXa.err /\ sync.isNone = lastXa.isNone /\ sync.result = lastXa.result

\* C29: every handle wrapper that has not been closed has a parent Context
\* wrapper that still holds its native context, and that native context has
\* not been released.
C29_OpenHandleHasLiveParent ==
    \A h \in HW : (hw[h].st = "live" /\ hw[h].smbobj # None) =>
        /\ cw[hw[h].parent].st = "live"
        /\ cw[hw[h].parent].smbobj # None
        /\ natCtx[cw[hw[h].parent].smbobj] = "live"

\* C30: the request of flush_async never fails: the worker's call of it
\* raises nothing, and its result slot is never resolved with an exception.
C30_FlushSucceeds ==
    \A r \in 1..Len(reqKind) : reqKind[r] = "flush" =>
        /\ outcome[r] # "fail"
        /\ fut[r] # "exception"
        /\ \A i \in 1..Len(callbacks) : callbacks[i].r = r => callbacks[i].out = "result"

\* C31: write raises SMBError exactly when the native write returned a
\* negative count; every count from zero up is returned to the caller.
C31_WriteFailsOnlyOnNegative ==
    (lastOp.op = "write" /\ ~lastOp.closed /\ lastOp.err # "TypeError") =>
        /\ (lastOp.err = "SMBError") <=> (lastOp.lastn < 0)
        /\ lastOp.lastn >= 0 => (lastOp.err = "none" /\ lastOp.n = lastOp.lastn)

\* C38: in readall, every native read is asked for more than read_at_once // 2
\* bytes, with offset + to_read equal to the buffer's length, so no read is
\* given more room than the buffer has and none asks for zero bytes; every
\* extension of the buffer is a positive multiple of read_at_once.
C38_ReadallRequestSize ==
    (lastOp.op = "readall" /\ ~lastOp.closed) =>
        /\ ~lastOp.small
        /\ ~lastOp.misfit
        /\ ~lastOp.overflow
        /\ ~lastOp.badExt

\* a readall with read_at_once = 2 that extended its buffer after a short read
C38_Witness ==
    /\ lastOp.op = "readall" /\ ~lastOp.closed
    /\ read_at_once = 2
    /\ lastOp.calls >= 3
    /\ Len(lastOp.ret) >= 2

\* C32: no use after release.  While the worker is inside an operation bound
\* to the Context, the Context wrapper exists and its native context has not
\* been released, by close() or by the finaliser; and once the worker has
\* taken the end-of-work entry it executes nothing more, whatever is still
\* queued or is submitted later.
C32_NoUseAfterRelease ==
    /\ [](WorkerInNative =>
              /\ cw[AsyncCtx].st = "live"
              /\ cw[AsyncCtx].smbobj # None
              /\ natCtx[cw[AsyncCtx].smbobj] = "live")
    /\ [][(wpc \in {"exited", "crashed"}) => (wpc' = wpc /\ execLog' = execLog)]_vars

\* C34: no invocation of the callback reads a field of the AsyncNotifier that
\* __init__ has not assigned yet.
C34_FieldsInitialised == lastCb.called => ~lastCb.uninit

RECURSIVE Flatten(_)
\* the items of a sequence of posted callbacks, in order
Flatten(posts) == IF posts = <<>> THEN <<>> ELSE Head(posts) \o Flatten(Tail(posts))

\* the items on their way to the consumer: those in self.notifs, then those of
\* the callbacks the loop has not run yet
OnTheWay ==
    SelectSeq(notifs \o Flatten(nPosted), LAMBDA it : it.kind \in {"event", "None", "end"})

C37_OrderedAndEndsOnce ==
    /\ \A i, j \in 1..Len(OnTheWay) :
           (i < j /\ OnTheWay[i].kind = "event" /\ OnTheWay[j].kind = "event")
               => OnTheWay[i].id < OnTheWay[j].id
    /\ nEnds + Cardinality({i \in 1..Len(Flatten(nPosted)) : Flatten(nPosted)[i] = EndMarker}) <= 1
    /\ \A i \in 1..Len(OnTheWay) : OnTheWay[i] = EndMarker => i = Len(OnTheWay)
    /\ (nEnds >= 1 /\ \A i \in 1..Len(notifs) : notifs[i] # EndMarker) => OnTheWay = <<>>

\* two events are in the queue after the consumer took an earlier one
C37_Witness ==
    /\ Len(notifs) = 2
    /\ notifs[1].kind = "event" /\ notifs[2].kind = "event"
    /\ nReported = MaxReported


\* C40: when the auth callback runs do_auth, the buffer of every component
\* that is unset in the selected entry is afterwards what the library
\* pre-populated; when no entry matches, all three buffers are unchanged;
\* and a buffer that did change holds the selected entry's component
C40_OnlySetComponentsOverwrite ==
    lastAuth.called =>
        /\ \A i \in 1..3 :
              /\ (lastAuth.entry = <<>> \/ lastAuth.entry[i] = NoneArg) =>
                     lastAuth.after[i] = lastAuth.before[i]
              /\ lastAuth.after[i] # lastAuth.before[i] =>
                     UpToNul(lastAuth.after[i]) = lastAuth.entry[i].val
        /\ lastAuth.entry = AllNone => lastAuth.after = lastAuth.before
        /\ lastAuth.err = "none" =>
              \A i \in 1..3 : lastAuth.entry[i] # NoneArg =>
                  UpToNul(lastAuth.after[i]) = lastAuth.entry[i].val

\* an entry with the username alone was selected: the username buffer got a
\* new value, the workgroup and password buffers kept non-empty old ones
C40_Witness ==
    /\ lastAuth.called /\ lastAuth.err = "none"
    /\ lastAuth.entry # <<>>
    /\ lastAuth.entry[1] = NoneArg /\ lastAuth.entry[2] # NoneArg /\ lastAuth.entry[3] = NoneArg
    /\ lastAuth.after[2] # lastAuth.before[2]
    /\ UpToNul(lastAuth.before[1]) = <<98>> /\ lastAuth.after[1] = lastAuth.before[1]
    /\ UpToNul(lastAuth.before[3]) = <<98>> /\ lastAuth.after[3] = lastAuth.before[3]


\* the requests whose result slot the consumer cancelled or dropped
Abandoned == {r \in 1..Len(fut) : fut[r] \in {"cancelled", "dropped", "lost"}}

\* requests run in queue order whether or not their result slot was
\* abandoned; every executed request that was not abandoned has its outcome
\* on the way to the loop or in its result slot; the worker survives
ExecutedInOrderAndResolved ==
    /\ \A i \in 1..Len(execLog) : execLog[i] = i
    /\ ~crashed /\ wpc # "crashed"
    /\ \A r \in 1..Len(fut) :
          /\ r \in Abandoned => resolver[r] = "none"
          /\ (outcome[r] # "none" /\ r \notin Abandoned) =>
                IF \E i \in 1..Len(callbacks) : callbacks[i].r = r
                THEN fut[r] = "pending"
                ELSE fut[r] = (IF outcome[r] = "ok" THEN "result" ELSE "exception")

\* the loop callback for an abandoned result slot changes no slot the
\* consumer can see and leaves the worker as it was
PostingIsNoOp ==
    [][(/\ callbacks # <<>>
        /\ callbacks' = Tail(callbacks)
        /\ fut[Head(callbacks).r] \in {"cancelled", "dropped"})
       => (/\ fut'[Head(callbacks).r] \in {"cancelled", "dropped", "lost"}
           /\ \A r \in 1..Len(fut) : r # Head(callbacks).r => fut'[r] = fut[r]
           /\ crashed' = crashed /\ wpc' = wpc /\ doneLog' = doneLog)]_vars

\* C39: when the consumer cancels or drops a result slot before the outcome
\* is posted, the request still runs in its queue position, the posting
\* changes nothing and raises nothing, and the other requests are executed
\* and resolved as usual
C39_AbandonedSlotHarmless == []ExecutedInOrderAndResolved /\ PostingIsNoOp

\* the first request was cancelled before its outcome was posted; it ran,
\* its posting has been consumed, and the second was resolved as usual
C39_Witness ==
    /\ Len(fut) = 2
    /\ fut[1] = "cancelled"
    /\ fut[2] = "result"
    /\ execLog = <<1, 2>>
    /\ callbacks = <<>>
    /\ doneLog = <<2>>


\* C33: every entry of a registry maps its key to a wrapper whose own
\* native identifier is that key, and a wrapper an open returns is never
\* one whose native identifier has been cleared
C33_RegistryEntryCarriesKey ==
    /\ \A f \in FileIds : GenericFile_instances[f] # 0 =>
            hw[GenericFile_instances[f]].smbobj = f
    /\ \A k \in CtxKeys : Context_instances[k] # 0 =>
            cw[Context_instances[k]].smbobj = k
    /\ (lastLookup.reg = "file" /\ lastLookup.hit /\ lastLookup.same) => ~lastLookup.closed


\* C35: while the native notify call of a stream runs, the worker is inside
\* the stream's request and that request is the last one started; a request
\* queued behind it has not started
C35_NothingRunsBesideNotify ==
    nPhase \in {"running", "stopped"} =>
        /\ wpc = "call"
        /\ reqKind[wEntry] = "notify"
        /\ execLog # <<>>
        /\ execLog[Len(execLog)] = wEntry
        /\ \A r \in 1..Len(reqKind) : r > wEntry => outcome[r] = "none"

\* a request was queued behind a running stream; the stream was stopped and
\* the request then ran
C35_Witness ==
    /\ Len(reqKind) = 2
    /\ reqKind[1] = "notify"
    /\ nPhase = "done"
    /\ nStopping
    /\ execLog = <<1, 2>>
    /\ outcome[2] = "ok"

====
